---------------------------- MODULE Spec2Model ----------------------------
(***************************************************************************)
(* Model of the parallel-agent coordination scripts under                  *)
(* src/scripts/python: decompose-parallel.py, spawn-agents.py,             *)
(* validate-parallel-work.py, integrate-parallel-work.py, agent-commit.py. *)
(*                                                                         *)
(* Every stage is a separate command-line invocation that runs to          *)
(* completion and communicates with the other stages only through files.   *)
(* Each stage therefore has its own specification: its Init draws the      *)
(* stage's inputs (the files it finds, the answers of external tools) from *)
(* bounded sets and its actions are the steps of the stage's code.         *)
(***************************************************************************)
EXTENDS Integers, Sequences, FiniteSets, TLC

(***************************************************************************)
(* Bounds of the model                                                     *)
(***************************************************************************)
\* longest agent list handed to calculate_merge_order / found in a plan file
MaxAgents == 3
\* most lines of an issue description
MaxLines == 2

(***************************************************************************)
(* Generic helpers for Python lists and insertion-ordered dicts.  A dict   *)
(* is a sequence of records [k |-> key, v |-> value] in insertion order.   *)
(***************************************************************************)
Range(s) == { s[i] : i \in 1..Len(s) }

Contains(s, x) == \E i \in 1..Len(s) : s[i] = x

\* list.remove(x): drop the first element equal to x
RemoveFirst(s, x) ==
    LET i == CHOOSE j \in 1..Len(s) : s[j] = x /\ \A k \in 1..(j - 1) : s[k] # x
    IN  SubSeq(s, 1, i - 1) \o SubSeq(s, i + 1, Len(s))

HasKey(d, key) == \E i \in 1..Len(d) : d[i].k = key

Lookup(d, key) == d[CHOOSE i \in 1..Len(d) : d[i].k = key].v

\* d[key] = val: overwrite in place, or append a new key
DictSet(d, key, val) ==
    IF HasKey(d, key)
    THEN [i \in 1..Len(d) |-> IF d[i].k = key THEN [k |-> key, v |-> val] ELSE d[i]]
    ELSE Append(d, [k |-> key, v |-> val])

Keys(d) == [i \in 1..Len(d) |-> d[i].k]

RECURSIVE Flatten(_)
Flatten(ss) == IF ss = <<>> THEN <<>> ELSE Head(ss) \o Flatten(Tail(ss))

\* sequences over S of length at most n
SeqsUpTo(S, n) == UNION { [1..m -> S] : m \in 0..n }

(***************************************************************************)
(* decompose-parallel.py: the rule table of                                *)
(* extract_file_operations_from_requirement.  A requirement text is        *)
(* represented by the set of rule keywords that occur in its lower-cased   *)
(* text (the only thing the conditions read).                              *)
(***************************************************************************)
patterns ==
    << [domain |-> "auth", words |-> {"auth", "login", "token"},
        files |-> << "lib/auth/authentication.ts", "lib/auth/token-manager.ts",
                     "middleware/auth.ts", "types/auth.ts" >>],
       [domain |-> "forms", words |-> {"form", "validation", "input"},
        files |-> << "components/forms/DynamicForm.tsx", "lib/form-validation.ts",
                     "hooks/useFormState.ts", "types/form.ts" >>],
       [domain |-> "backend", words |-> {"api", "endpoint", "server"},
        files |-> << "pages/api/[...slug].ts", "lib/api/client.ts",
                     "lib/api/handlers.ts", "types/api.ts" >>],
       [domain |-> "data", words |-> {"data", "storage", "database"},
        files |-> << "lib/database/queries.ts", "lib/database/models.ts",
                     "lib/storage/manager.ts", "types/data.ts" >>],
       [domain |-> "infrastructure", words |-> {"docker", "deploy", "infrastructure"},
        files |-> << "Dockerfile", "docker-compose.yml",
                     "scripts/deploy.sh", "scripts/build.sh" >>],
       [domain |-> "file_operations", words |-> {"write", "file operations", "create files"},
        files |-> << "lib/operations/write-operations.ts", "lib/operations/file-writer.ts",
                     "lib/validation/write-validation.ts", "types/operations.ts" >>],
       [domain |-> "ui", words |-> {"component", "ui", "interface"},
        files |-> << "components/ui/Button.tsx", "components/ui/Input.tsx",
                     "components/common/Layout.tsx", "styles/components.css" >>] >>

\* condition with all(...) written for any(...)
condition_all(p, req) == p.words \subseteq req

\* p["condition"](req_lower): any(word in req for word in [...])
condition(p, req) == p.words \cap req # {}

RECURSIVE AddPatternFiles(_, _, _, _)
AddPatternFiles(operations, p, req, i) ==
    IF i > Len(p.files) THEN operations
    ELSE AddPatternFiles(
             DictSet(operations, p.files[i],
                     [operation |-> "CREATE", domain |-> p.domain, requirement |-> req]),
             p, req, i + 1)

RECURSIVE AddMatchingPatterns(_, _, _)
AddMatchingPatterns(operations, req, j) ==
    IF j > Len(patterns) THEN operations
    ELSE AddMatchingPatterns(
             IF condition(patterns[j], req)
             THEN AddPatternFiles(operations, patterns[j], req, 1)
             ELSE operations,
             req, j + 1)

\* file -> FileOperation, in insertion order
extract_file_operations_from_requirement(req) == AddMatchingPatterns(<<>>, req, 1)

\* for file, operation_data in operations.items(): all_file_operations[file].append(...)
RECURSIVE AppendOperations(_, _, _)
AppendOperations(all, operations, i) ==
    IF i > Len(operations) THEN all
    ELSE LET file == operations[i].k
             old  == IF HasKey(all, file) THEN Lookup(all, file) ELSE <<>>
         IN  AppendOperations(DictSet(all, file, Append(old, operations[i].v)),
                              operations, i + 1)

RECURSIVE AnalyzeFrom(_, _, _)
AnalyzeFrom(all, requirements, i) ==
    IF i > Len(requirements) THEN all
    ELSE AnalyzeFrom(
             AppendOperations(all,
                              extract_file_operations_from_requirement(requirements[i]), 1),
             requirements, i + 1)

\* file -> list of operations, over all requirements
analyze_file_operations(requirements) == AnalyzeFrom(<<>>, requirements, 1)


(***************************************************************************)
(* decompose-parallel.py: requirement extraction.  A description is a      *)
(* sequence of lines; a line records whether it matches the numbered-item  *)
(* pattern ^\s*\d+\.\s*(.+) and which rule keywords its text contains.     *)
(***************************************************************************)
RECURSIVE NumberedFrom(_, _)
NumberedFrom(lines, i) ==
    IF i > Len(lines) THEN <<>>
    ELSE (IF lines[i].numbered THEN << lines[i].words >> ELSE <<>>)
         \o NumberedFrom(lines, i + 1)

extract_requirements(description) ==
    LET requirements == NumberedFrom(description, 1)
    IN  IF requirements = <<>>
        THEN << UNION { description[i].words : i \in 1..Len(description) } >>
        ELSE requirements

(***************************************************************************)
(* decompose-parallel.py: build_dependency_graph.  The rules read a path   *)
(* only through its directory prefix; Dirs gives the directory segments of *)
(* every path the rule table can produce.                                  *)
(***************************************************************************)
Dirs(file) ==
    CASE file \in {"lib/auth/authentication.ts", "lib/auth/token-manager.ts"} -> <<"lib", "auth">>
      [] file = "middleware/auth.ts" -> <<"middleware">>
      [] file \in {"types/auth.ts", "types/form.ts", "types/api.ts", "types/data.ts",
                   "types/operations.ts"} -> <<"types">>
      [] file = "components/forms/DynamicForm.tsx" -> <<"components", "forms">>
      [] file = "lib/form-validation.ts" -> <<"lib">>
      [] file = "hooks/useFormState.ts" -> <<"hooks">>
      [] file = "pages/api/[...slug].ts" -> <<"pages", "api">>
      [] file \in {"lib/api/client.ts", "lib/api/handlers.ts"} -> <<"lib", "api">>
      [] file \in {"lib/database/queries.ts", "lib/database/models.ts"} -> <<"lib", "database">>
      [] file = "lib/storage/manager.ts" -> <<"lib", "storage">>
      [] file \in {"scripts/deploy.sh", "scripts/build.sh"} -> <<"scripts">>
      [] file \in {"lib/operations/write-operations.ts", "lib/operations/file-writer.ts"}
             -> <<"lib", "operations">>
      [] file = "lib/validation/write-validation.ts" -> <<"lib", "validation">>
      [] file \in {"components/ui/Button.tsx", "components/ui/Input.tsx"} -> <<"components", "ui">>
      [] file = "components/common/Layout.tsx" -> <<"components", "common">>
      [] file = "styles/components.css" -> <<"styles">>
      [] OTHER -> <<>>

IsPrefix(p, s) == Len(p) <= Len(s) /\ SubSeq(s, 1, Len(p)) = p

\* rule["pattern"].match(file) for a pattern ^dir/.../ given by its segments
UnderDir(file, dir) == IsPrefix(dir, Dirs(file))

\* other_file.startswith(dep.replace("/", "")): the slashes are removed from
\* the dependent prefix, so its segments are glued into one word, and a path
\* starts with that word only if the word is (a prefix of) its first segment.
\* No first segment of the table's paths properly extends another word, so
\* "starts with" is equality of the first segment with the glued word.
StartsWithStripped(file, dep) ==
    /\ Len(dep) = 1
    /\ Dirs(file) # <<>>
    /\ Dirs(file)[1] = dep[1]

dependency_rules ==
    << [pattern |-> {<<"types">>},
        dependents |-> << <<"lib">>, <<"components">>, <<"pages">> >>],
       [pattern |-> {<<"lib", "auth">>},
        dependents |-> << <<"middleware">>, <<"pages", "api">> >>],
       [pattern |-> {<<"lib", "database">>},
        dependents |-> << <<"pages", "api">>, <<"lib", "api">> >>],
       [pattern |-> {<<"components", "common">>},
        dependents |-> << <<"components">>, <<"pages">> >>],
       [pattern |-> {<<"scripts">>, <<"Dockerfile">>, <<"docker-compose.yml">>},
        dependents |-> << <<"**">> >>] >>

RuleMatches(rule, file) ==
    \/ \E dir \in rule.pattern : UnderDir(file, dir)
    \/ /\ file \in {"Dockerfile", "docker-compose.yml"}
       /\ <<file>> \in rule.pattern

\* the entries one rule appends for one file: for every other file, one entry
\* per dependent prefix that fits
RuleTargets(rule, file, files) ==
    Flatten([i \in 1..Len(files) |->
        IF files[i] = file THEN <<>>
        ELSE Flatten([j \in 1..Len(rule.dependents) |->
                 IF rule.dependents[j] = <<"**">>
                    \/ StartsWithStripped(files[i], rule.dependents[j])
                 THEN << files[i] >> ELSE <<>>])])

build_dependency_graph(all) ==
    LET files == Keys(all)
    IN  [i \in 1..Len(files) |->
            [k |-> files[i],
             v |-> Flatten([r \in 1..Len(dependency_rules) |->
                       IF RuleMatches(dependency_rules[r], files[i])
                       THEN RuleTargets(dependency_rules[r], files[i], files)
                       ELSE <<>>])]]

(***************************************************************************)
(* decompose-parallel.py: create_exclusive_domains                         *)
(***************************************************************************)
RECURSIVE GroupFrom(_, _, _)
GroupFrom(groups, all, i) ==
    IF i > Len(all) THEN groups
    ELSE LET domain == all[i].v[1].domain
             old    == IF HasKey(groups, domain) THEN Lookup(groups, domain) ELSE <<>>
         IN  GroupFrom(DictSet(groups, domain, Append(old, all[i].k)), all, i + 1)

\* domain_groups listing a file under the domain of every operation it carries
domain_groups_every_operation(all) ==
    GroupFrom(<<>>,
              Flatten([i \in 1..Len(all) |->
                  [j \in 1..Len(all[i].v) |-> [k |-> all[i].k, v |-> << all[i].v[j] >>]]]),
              1)

\* domain -> files, grouped by the domain of each file's first operation
domain_groups(all) == GroupFrom(<<>>, all, 1)

\* the check at the end of create_exclusive_domains: some file is seen twice
\* while walking all domains' file lists
DomainFileConflict(domains) ==
    LET files == Flatten([i \in 1..Len(domains) |-> domains[i].v])
    IN  \E i, j \in 1..Len(files) : i < j /\ files[i] = files[j]

(***************************************************************************)
(* decompose-parallel.py: create_agent_for_domain / generate_exclusive_    *)
(* agents.  Of the domain table only the id and the dependencies decide    *)
(* anything downstream.                                                    *)
(***************************************************************************)
domain_configs(domain) ==
    CASE domain = "auth"            -> [id |-> "auth_agent", dependencies |-> {}]
      [] domain = "forms"           -> [id |-> "forms_agent", dependencies |-> {"auth_agent"}]
      [] domain = "backend"         -> [id |-> "backend_agent", dependencies |-> {"data_agent"}]
      [] domain = "data"            -> [id |-> "data_agent", dependencies |-> {}]
      [] domain = "infrastructure"  -> [id |-> "infrastructure_agent", dependencies |-> {}]
      [] domain = "file_operations" -> [id |-> "file_operations_agent",
                                        dependencies |-> {"data_agent"}]
      [] domain = "ui"              -> [id |-> "ui_agent", dependencies |-> {"auth_agent"}]
      [] OTHER                      -> [id |-> domain, dependencies |-> {}]

\* create_agent_for_domain with the two file lists exchanged
create_agent_for_domain_swapped(domain, files, all) ==
    LET config == domain_configs(domain)
        isCreate(file) == LET operations == Lookup(all, file)
                          IN  operations # <<>> /\ operations[1].operation = "CREATE"
    IN  [id |-> config.id,
         dependencies |-> config.dependencies,
         files_to_create |-> SelectSeq(files, LAMBDA f : ~isCreate(f)),
         files_to_modify |-> SelectSeq(files, isCreate),
         can_start_immediately |-> (config.dependencies = {})]

create_agent_for_domain(domain, files, all) ==
    LET config == domain_configs(domain)
        isCreate(file) == LET operations == Lookup(all, file)
                          IN  operations # <<>> /\ operations[1].operation = "CREATE"
    IN  [id |-> config.id,
         dependencies |-> config.dependencies,
         files_to_create |-> SelectSeq(files, isCreate),
         files_to_modify |-> SelectSeq(files, LAMBDA f : ~isCreate(f)),
         can_start_immediately |-> (config.dependencies = {})]

generate_exclusive_agents(domains, all) ==
    [i \in 1..Len(domains) |-> create_agent_for_domain(domains[i].k, domains[i].v, all)]

(***************************************************************************)
(* decompose-parallel.py: validate_no_conflicts.  The result is "ok" or    *)
(* the ValueError raised at the first file seen twice, with the file and   *)
(* the two agent ids its message names.                                    *)
(***************************************************************************)
\* (agent id, file) in the order the two nested loops visit them
OwnershipClaims(agents) ==
    Flatten([i \in 1..Len(agents) |->
        LET all_files == agents[i].files_to_create \o agents[i].files_to_modify
        IN  [j \in 1..Len(all_files) |-> [agent |-> agents[i].id, file |-> all_files[j]]]])

validate_no_conflicts(agents) ==
    LET claims == OwnershipClaims(agents)
        dup(j) == \E i \in 1..(j - 1) : claims[i].file = claims[j].file
    IN  IF \E j \in 1..Len(claims) : dup(j)
        THEN LET j == CHOOSE n \in 1..Len(claims) : dup(n) /\ \A m \in 1..(n - 1) : ~dup(m)
                 \* file_ownership[file] holds the first agent that claimed it
                 i == CHOOSE n \in 1..(j - 1) :
                          /\ claims[n].file = claims[j].file
                          /\ \A m \in 1..(n - 1) : claims[m].file # claims[j].file
             IN  [kind |-> "CONFLICT", file |-> claims[j].file,
                  agent |-> claims[j].agent, owner |-> claims[i].agent]
        ELSE [kind |-> "ok"]

(***************************************************************************)
(* decompose-parallel.py: calculate_merge_order, one loop iteration at a   *)
(* time.  The loop state is (ordered, remaining).                          *)
(***************************************************************************)
\* IsReady with any(...) written for all(...)
IsReady_any(agent, ordered) ==
    agent.dependencies = {} \/ \E dep \in agent.dependencies : Contains(ordered, dep)

IsReady(agent, ordered) ==
    agent.dependencies = {} \/ \A dep \in agent.dependencies : Contains(ordered, dep)

ready_agents(ordered, remaining) == SelectSeq(remaining, LAMBDA a : IsReady(a, ordered))

AgentIds(agents) == [i \in 1..Len(agents) |-> agents[i].id]

\* merge_fallback extending by the remaining ids back to front
merge_fallback_reversed(ordered, remaining) ==
    ordered \o [i \in 1..Len(remaining) |-> remaining[Len(remaining) + 1 - i].id]

\* merge_fallback breaking out of the loop without extending ordered
merge_fallback_break_only(ordered, remaining) == ordered

\* the fallback branch: ordered.extend([a.id for a in remaining]); break
merge_fallback(ordered, remaining) == ordered \o AgentIds(remaining)

\* one pass through the body of "while remaining"; broke = the fallback's break
merge_iteration(ordered, remaining) ==
    LET ready == ready_agents(ordered, remaining)
    IN  IF ready = <<>>
        THEN [ordered |-> merge_fallback(ordered, remaining), remaining |-> remaining,
              broke |-> TRUE]
        ELSE [ordered |-> Append(ordered, ready[1].id),
              remaining |-> RemoveFirst(remaining, ready[1]),
              broke |-> FALSE]

RECURSIVE MergeLoop(_, _)
MergeLoop(ordered, remaining) ==
    IF remaining = <<>> THEN ordered
    ELSE LET next == merge_iteration(ordered, remaining)
         IN  IF next.broke THEN next.ordered
             ELSE MergeLoop(next.ordered, next.remaining)

calculate_merge_order(agents) == MergeLoop(<<>>, agents)

(***************************************************************************)
(* decompose-parallel.py: the deployment plan and its persistence.  A      *)
(* stored document is [name, ext, format, data]: format is the syntax the  *)
(* writer used ("yaml" for yaml.dump, "json" for json.dump), data the      *)
(* value it serialised.                                                    *)
(***************************************************************************)
agent_to_dict(agent) ==
    [agentId |-> agent.id,
     dependencies |-> agent.dependencies,
     filesToCreate |-> agent.files_to_create,
     filesToModify |-> agent.files_to_modify,
     canStartImmediately |-> agent.can_start_immediately]

generate_deployment_plan(taskId, agents) ==
    [taskId |-> taskId,
     decompositionStrategy |-> "exclusive_ownership",
     parallelAgents |-> [i \in 1..Len(agents) |-> agent_to_dict(agents[i])],
     integrationPlan |-> [mergeOrder |-> calculate_merge_order(agents)]]

\* Agent(...) built from one agent_data of the LLM result
llm_agent(agent_data) ==
    [id |-> agent_data.agentId,
     dependencies |-> agent_data.dependencies,
     files_to_create |-> agent_data.filesToCreate,
     files_to_modify |-> agent_data.filesToModify,
     can_start_immediately |-> (agent_data.dependencies = {})]

convert_llm_result_to_deployment_plan(taskId, llm_result) ==
    LET agents == [i \in 1..Len(llm_result.agents) |-> llm_agent(llm_result.agents[i])]
    IN  [taskId |-> taskId,
         decompositionStrategy |-> "llm_hybrid",
         parallelAgents |-> [i \in 1..Len(agents) |-> agent_to_dict(agents[i])],
         integrationPlan |-> [mergeOrder |-> calculate_merge_order(agents)]]

\* llm_result["confidence"] >= 0.8, confidences in tenths
ConfidenceThreshold == 8

\* the document save_deployment_plan writes: <issue id>-deployment-plan.yaml
plan_document(plan) ==
    [name |-> "issue-deployment-plan", ext |-> "yaml", format |-> "yaml", data |-> plan]

\* open(filepath, "w"): a file of that name and extension is replaced
WriteFile(dir, doc) ==
    { f \in dir : ~(f.name = doc.name /\ f.ext = doc.ext) } \cup {doc}

save_deployment_plan(dir, plan) == WriteFile(dir, plan_document(plan))

(***************************************************************************)
(* State                                                                   *)
(***************************************************************************)
VARIABLES
    \* ---- calculate_merge_order, run on its own
    mo_pc,              \* "idle" | "loop" | "done"
    mo_agents,          \* the agent list passed in
    mo_ordered,         \* ordered
    mo_remaining,       \* remaining
    mo_broke,           \* the fallback branch was taken
    \* ---- one run of decompose-parallel.py
    d_pc,               \* position in main / decompose
    d_in,               \* what the run finds: issue cache, environment, LLM answer
    linear_issue,       \* self.linear_issue: <<>> or <<issue>>
    all_file_operations,
    dependency_graph,
    exclusive_domains,
    d_agents,           \* agents of the pattern-based path
    d_plan,             \* deployment_plan under construction: <<>> or <<plan>>
    d_result,           \* what decompose returned: <<>> or <<plan>>
    d_error,            \* the exception decompose raised: <<>> or <<error>>
    d_exit,             \* exit code of the command, -1 while running
    deployment_plans,   \* the files of shared/deployment-plans
    \* ---- one run of integrate-parallel-work.py
    i_pc,               \* position in integrate_parallel_work
    i_in,               \* environment of the run: package manager, --skip-tests
    shared_coordination,\* the files of the validation directory
    workspaces,         \* workspaces/<agent> of the main checkout
    i_plan,             \* the plan file found: <<>> or <<document>>
    integration_order,
    i_idx,              \* position of the loop over integration_order
    integration_branch, \* <<>> or <<branch>> once created
    merged,             \* (agent, file) copied into the integration line
    tested,             \* agents after whose merge the test gate ran
    commits,            \* commits on the integration branch, by agent
    quality_results,    \* <<>> or <<results>>
    reports,            \* the files of shared/reports
    i_failure,          \* why the run stopped
    i_exit,             \* exit code of the command, -1 while running
    \* ---- the work-trees directory next to the checkout
    worktrees_dir,      \* the directory exists
    coordination,       \* the files of <work-trees>/coordination
    worktrees,          \* the worktrees: [name, workspaces]
    \* ---- one run of spawn-agents.py
    s_pc,               \* position in spawn_agents
    s_in,               \* the plan file named on the command line: <<document>>
    s_plan,             \* the plan as loaded: <<>> or <<plan>>
    s_agents,           \* agents = get_unique_agents(plan)
    s_idx,              \* position of the loop over agents
    s_created,          \* agents whose worktree this run created
    s_failure,
    s_exit,
    \* ---- one run of validate-parallel-work.py
    v_pc,
    spawned_agents,     \* (agent, worktree) as discovered
    pending_agents,
    v_failure,
    v_exit,
    \* ---- one run of agent-commit.py
    c_pc,
    c_workspace,        \* the workspace the command was run on
    c_committed,        \* git commit was made
    c_failure,
    c_exit,
    \* ---- two invocations writing one status file
    r_file,             \* the blocks of the status file on disk
    r_path,             \* which status file the two invocations write
    r_todo,             \* per writer: the sizes of the documents it dumps, in order
    r_done,             \* per writer: how many of its documents it has dumped
    r_pc                \* per writer: "closed" | "open" | "done"

moVars == << mo_pc, mo_agents, mo_ordered, mo_remaining, mo_broke >>

decVars == << d_pc, d_in, linear_issue, all_file_operations, dependency_graph,
              exclusive_domains, d_agents, d_plan, d_result, d_error, d_exit >>

intVars == << i_pc, i_in, shared_coordination, workspaces, i_plan, integration_order,
             i_idx, integration_branch, merged, tested, commits, quality_results,
             reports, i_failure, i_exit >>

spawnVars == << s_pc, s_in, s_plan, s_agents, s_idx, s_created, s_failure, s_exit >>

valVars == << v_pc, spawned_agents, pending_agents, v_failure, v_exit >>

comVars == << c_pc, c_workspace, c_committed, c_failure, c_exit >>

swVars == << worktrees_dir, coordination, worktrees, spawnVars, valVars, comVars >>

raceVars == << r_file, r_path, r_todo, r_done, r_pc >>

vars == << moVars, decVars, deployment_plans, intVars, swVars, raceVars >>

(***************************************************************************)
(* calculate_merge_order as a state machine                                *)
(***************************************************************************)
\* ids of the agents of a test list, and an id no agent of the list has
MergeIds == {"a", "b", "c"}
AbsentId == "ghost"

MergeAgent(id, deps) ==
    [id |-> id, dependencies |-> deps, files_to_create |-> <<>>,
     files_to_modify |-> <<>>, can_start_immediately |-> (deps = {})]

\* the dependency lists tried: none, one or two of the ids and the absent id
MergeDeps == { {x, y} : x, y \in MergeIds \cup {AbsentId} } \cup { {} }

MergeAgents == { MergeAgent(id, deps) : id \in MergeIds, deps \in MergeDeps }

\* The procedure compares ids only for equality, so the lists are taken up to
\* renaming: the ids are named a, b, c in the order of their first appearance.
IdIndex(id) == CASE id = "a" -> 1 [] id = "b" -> 2 [] OTHER -> 3

FirstAppearanceOrder(agents) ==
    \A i \in 1..Len(agents) :
        \/ IdIndex(agents[i].id) = 1
        \/ \E j \in 1..(i - 1) : IdIndex(agents[j].id) >= IdIndex(agents[i].id) - 1

MergeAgentLists ==
    { agents \in SeqsUpTo(MergeAgents, MaxAgents) : FirstAppearanceOrder(agents) }

MoIdle ==
    /\ mo_pc = "idle"
    /\ mo_agents = <<>>
    /\ mo_ordered = <<>>
    /\ mo_remaining = <<>>
    /\ mo_broke = FALSE

\* ordered = []; remaining = agents.copy()
MoInit ==
    /\ mo_pc = "loop"
    /\ mo_agents \in MergeAgentLists
    /\ mo_ordered = <<>>
    /\ mo_remaining = mo_agents
    /\ mo_broke = FALSE

\* while remaining: ... (one iteration)
MoIterate ==
    /\ mo_pc = "loop"
    /\ mo_remaining # <<>>
    /\ LET next == merge_iteration(mo_ordered, mo_remaining)
       IN  /\ mo_ordered' = next.ordered
           /\ mo_remaining' = next.remaining
           /\ mo_broke' = next.broke
           /\ mo_pc' = IF next.broke THEN "done" ELSE "loop"
    /\ UNCHANGED << mo_agents, decVars, deployment_plans, intVars, swVars, raceVars >>

\* the loop condition fails: return ordered
MoReturn ==
    /\ mo_pc = "loop"
    /\ mo_remaining = <<>>
    /\ mo_pc' = "done"
    /\ UNCHANGED << mo_agents, mo_ordered, mo_remaining, mo_broke, decVars,
                    deployment_plans, intVars, swVars, raceVars >>

(***************************************************************************)
(* decompose-parallel.py: one run of main -> decompose                     *)
(***************************************************************************)
\* most agents in an answer of the LLM decomposer
MaxLlmAgents == 2

\* keyword contents of the requirement lines the runs are tried on:
\* "Implement JWT auth login", "Add API endpoint for validation", a line
\* naming form and auth, a line naming data, a line matching no rule
SampleWords == { {"auth", "login"}, {"api", "endpoint", "validation"},
                 {"form", "auth"}, {"data"}, {} }

Descriptions == SeqsUpTo([numbered : BOOLEAN, words : SampleWords], MaxLines)

\* the agents an LLM answer may list
LlmAgentData == [agentId : {"llm_a", "llm_b"},
                 dependencies : { {}, {"llm_a"}, {AbsentId} },
                 filesToCreate : { <<>>, <<"src/a.ts">>, <<"src/b.ts">> },
                 filesToModify : { <<>>, <<"src/a.ts">> }]

NoLlmResult == [confidence |-> 0, agents |-> <<>>]

TaskId == "ISSUE"

\* requirement of the fallback issue built when the cache file is missing:
\* "Implement <issue id> functionality" (an issue id naming no rule keyword)
FallbackRequirement == {}

DecIdle ==
    /\ d_pc = "idle"
    /\ d_in = [cached |-> FALSE, description |-> <<>>, use_hybrid |-> FALSE,
               llm_outcome |-> "unavailable", llm_result |-> NoLlmResult,
               dry_run |-> FALSE]
    /\ linear_issue = <<>>
    /\ all_file_operations = <<>>
    /\ dependency_graph = <<>>
    /\ exclusive_domains = <<>>
    /\ d_agents = <<>>
    /\ d_plan = <<>>
    /\ d_result = <<>>
    /\ d_error = <<>>
    /\ d_exit = -1

\* the inputs of a run: runs whose issue text varies (the LLM, if asked, gives
\* no usable answer), runs whose LLM answer varies, and a dry run on an LLM
\* answer of full confidence
DecInputs ==
    { [cached |-> c, description |-> d, use_hybrid |-> h, llm_outcome |-> o.outcome,
       llm_result |-> o.result, dry_run |-> dr] :
        c \in BOOLEAN, d \in Descriptions, h \in BOOLEAN, dr \in BOOLEAN,
        o \in { [outcome |-> "unavailable", result |-> NoLlmResult],
                [outcome |-> "raises", result |-> NoLlmResult],
                [outcome |-> "result",
                 result |-> [confidence |-> 7, agents |-> <<>>]] } }
    \cup
    { [cached |-> TRUE, description |-> << [numbered |-> FALSE, words |-> {"auth", "login"}] >>,
       use_hybrid |-> TRUE, llm_outcome |-> "result",
       llm_result |-> [confidence |-> conf, agents |-> ag], dry_run |-> FALSE] :
        conf \in {7, 8, 9}, ag \in SeqsUpTo(LlmAgentData, MaxLlmAgents) }
    \cup
    { [cached |-> TRUE, description |-> << [numbered |-> FALSE, words |-> {"auth", "login"}] >>,
       use_hybrid |-> TRUE, llm_outcome |-> "result",
       llm_result |-> [confidence |-> 10,
                       agents |-> << [agentId |-> "llm_a", dependencies |-> {},
                                      filesToCreate |-> <<"src/a.ts">>,
                                      filesToModify |-> <<>>] >>],
       dry_run |-> TRUE] }

DecInit ==
    /\ d_pc = "load"
    /\ d_in \in DecInputs
    /\ linear_issue = <<>>
    /\ all_file_operations = <<>>
    /\ dependency_graph = <<>>
    /\ exclusive_domains = <<>>
    /\ d_agents = <<>>
    /\ d_plan = <<>>
    /\ d_result = <<>>
    /\ d_error = <<>>
    /\ d_exit = -1

\* Step 1: load_linear_issue
load_linear_issue ==
    /\ d_pc = "load"
    /\ linear_issue' =
          << IF d_in.cached
             THEN [id |-> TaskId, requirements |-> extract_requirements(d_in.description)]
             ELSE [id |-> TaskId, requirements |-> << FallbackRequirement >>] >>
    /\ d_pc' = IF d_in.use_hybrid THEN "hybrid" ELSE "analyze"
    /\ UNCHANGED << d_in, all_file_operations, dependency_graph, exclusive_domains,
                    d_agents, d_plan, d_result, d_error, d_exit, moVars, raceVars, intVars, swVars,
                    deployment_plans >>

\* try_hybrid_analysis accepting only a confidence above the threshold
try_hybrid_analysis_strict ==
    /\ d_pc = "hybrid"
    /\ IF /\ d_in.llm_outcome = "result"
          /\ d_in.llm_result.confidence > ConfidenceThreshold
       THEN /\ d_result' = << convert_llm_result_to_deployment_plan(linear_issue[1].id,
                                                                     d_in.llm_result) >>
            /\ d_pc' = "returned"
       ELSE /\ d_result' = d_result
            /\ d_pc' = "analyze"
    /\ UNCHANGED << d_in, linear_issue, all_file_operations, dependency_graph,
                    exclusive_domains, d_agents, d_plan, d_error, d_exit,
                    moVars, raceVars, intVars, swVars,
                    deployment_plans >>

\* Step 2: try_hybrid_analysis; a result of enough confidence is returned at once.
\* The outcome "raises" stands for an exception anywhere in its body, the
\* analyzer's call and the conversion of its answer included: all are caught
\* by the one except clause, which returns None.
try_hybrid_analysis ==
    /\ d_pc = "hybrid"
    /\ IF /\ d_in.llm_outcome = "result"
          /\ d_in.llm_result.confidence >= ConfidenceThreshold
       THEN /\ d_result' = << convert_llm_result_to_deployment_plan(linear_issue[1].id,
                                                                     d_in.llm_result) >>
            /\ d_pc' = "returned"
       ELSE /\ d_result' = d_result
            /\ d_pc' = "analyze"
    /\ UNCHANGED << d_in, linear_issue, all_file_operations, dependency_graph,
                    exclusive_domains, d_agents, d_plan, d_error, d_exit,
                    moVars, raceVars, intVars, swVars,
                    deployment_plans >>

DAnalyze ==
    /\ d_pc = "analyze"
    /\ all_file_operations' = analyze_file_operations(linear_issue[1].requirements)
    /\ d_pc' = "graph"
    /\ UNCHANGED << d_in, linear_issue, dependency_graph, exclusive_domains, d_agents,
                    d_plan, d_result, d_error, d_exit,
                    moVars, raceVars, intVars, swVars, deployment_plans >>

DGraph ==
    /\ d_pc = "graph"
    /\ dependency_graph' = build_dependency_graph(all_file_operations)
    /\ d_pc' = "domains"
    /\ UNCHANGED << d_in, linear_issue, all_file_operations, exclusive_domains, d_agents,
                    d_plan, d_result, d_error, d_exit,
                    moVars, raceVars, intVars, swVars, deployment_plans >>

\* create_exclusive_domains with the domains in an order that is not fixed
DDomains_any_order ==
    /\ d_pc = "domains"
    /\ LET n == Len(domain_groups(all_file_operations))
       IN  \E p \in { q \in [1..n -> 1..n] : \A i, j \in 1..n : i # j => q[i] # q[j] } :
             exclusive_domains' = [i \in 1..n |-> domain_groups(all_file_operations)[p[i]]]
    /\ IF DomainFileConflict(domain_groups(all_file_operations))
       THEN /\ d_error' = << [kind |-> "DOMAIN_CONFLICT", file |-> "", agent |-> "",
                              owner |-> ""] >>
            /\ d_pc' = "raised"
       ELSE /\ d_error' = d_error
            /\ d_pc' = "agents"
    /\ UNCHANGED << d_in, linear_issue, all_file_operations, dependency_graph, d_agents,
                    d_plan, d_result, d_exit, moVars, raceVars, intVars, swVars, deployment_plans >>

\* create_exclusive_domains: group, then raise if a file is in two domains
DDomains ==
    /\ d_pc = "domains"
    /\ exclusive_domains' = domain_groups(all_file_operations)
    /\ IF DomainFileConflict(domain_groups(all_file_operations))
       THEN /\ d_error' = << [kind |-> "DOMAIN_CONFLICT", file |-> "", agent |-> "",
                              owner |-> ""] >>
            /\ d_pc' = "raised"
       ELSE /\ d_error' = d_error
            /\ d_pc' = "agents"
    /\ UNCHANGED << d_in, linear_issue, all_file_operations, dependency_graph, d_agents,
                    d_plan, d_result, d_exit, moVars, raceVars, intVars, swVars, deployment_plans >>

DAgents ==
    /\ d_pc = "agents"
    /\ d_agents' = generate_exclusive_agents(exclusive_domains, all_file_operations)
    /\ d_pc' = "validate"
    /\ UNCHANGED << d_in, linear_issue, all_file_operations, dependency_graph,
                    exclusive_domains, d_plan, d_result, d_error, d_exit,
                    moVars, raceVars, intVars, swVars,
                    deployment_plans >>

\* self.validate_no_conflicts(agents): raises ValueError on a conflict
DValidate ==
    /\ d_pc = "validate"
    /\ LET r == validate_no_conflicts(d_agents)
       IN  IF r.kind = "ok"
           THEN d_error' = d_error /\ d_pc' = "plan"
           ELSE d_error' = << r >> /\ d_pc' = "raised"
    /\ UNCHANGED << d_in, linear_issue, all_file_operations, dependency_graph,
                    exclusive_domains, d_agents, d_plan, d_result, d_exit,
                    moVars, raceVars, intVars, swVars,
                    deployment_plans >>

DPlan ==
    /\ d_pc = "plan"
    /\ d_plan' = << generate_deployment_plan(linear_issue[1].id, d_agents) >>
    /\ d_pc' = "save"
    /\ UNCHANGED << d_in, linear_issue, all_file_operations, dependency_graph,
                    exclusive_domains, d_agents, d_result, d_error, d_exit,
                    moVars, raceVars, intVars, swVars,
                    deployment_plans >>

DSave ==
    /\ d_pc = "save"
    /\ deployment_plans' = save_deployment_plan(deployment_plans, d_plan[1])
    /\ d_pc' = "report"
    /\ UNCHANGED << d_in, linear_issue, all_file_operations, dependency_graph,
                    exclusive_domains, d_agents, d_plan, d_result, d_error, d_exit,
                    moVars, raceVars, intVars, swVars >>

\* report_decomposition; return deployment_plan
DReturn ==
    /\ d_pc = "report"
    /\ d_result' = d_plan
    /\ d_pc' = "returned"
    /\ UNCHANGED << d_in, linear_issue, all_file_operations, dependency_graph,
                    exclusive_domains, d_agents, d_plan, d_error, d_exit,
                    moVars, raceVars, intVars, swVars,
                    deployment_plans >>

\* main: decompose returned (exit 0) or raised (ClickException, exit 1)
DExit ==
    /\ d_pc \in {"returned", "raised"}
    /\ d_exit' = IF d_pc = "returned" THEN 0 ELSE 1
    /\ d_pc' = "exited"
    /\ UNCHANGED << d_in, linear_issue, all_file_operations, dependency_graph,
                    exclusive_domains, d_agents, d_plan, d_result, d_error,
                    moVars, raceVars, intVars, swVars,
                    deployment_plans >>

(***************************************************************************)
(* Stored documents as the later stages read them.  json.load accepts a    *)
(* document written by json.dump only; yaml.safe_load also reads JSON.     *)
(***************************************************************************)
\* dict.get(key, default) on a loaded document
Get(data, key, default) == IF key \in DOMAIN data THEN data[key] ELSE default

\* the file <name>.<ext> of a directory: <<>> or <<document>>
FileAt(dir, name, ext) ==
    IF \E f \in dir : f.name = name /\ f.ext = ext
    THEN << CHOOSE f \in dir : f.name = name /\ f.ext = ext >>
    ELSE <<>>

\* load_json_file: None (<<>>) on a missing file or a JSONDecodeError
load_json_file(file) ==
    IF file # <<>> /\ file[1].format = "json" THEN << file[1].data >> ELSE <<>>

\* load_yaml_file: None (<<>>) on a missing file or a YAMLError
load_yaml_file(file) ==
    IF file # <<>> /\ file[1].format \in {"json", "yaml"} THEN << file[1].data >> ELSE <<>>

(***************************************************************************)
(* integrate-parallel-work.py                                              *)
(***************************************************************************)
\* the check "validation_status and validation_status.get('validation_passed')"
validation_passed_any(validation_status) == validation_status # <<>>

validation_passed(validation_status) ==
    /\ validation_status # <<>>
    /\ Get(validation_status[1], "validation_passed", FALSE) = TRUE

\* find_deployment_plan: the files glob may return for the first pattern
\* that matches anything; plans[0] is one of them
find_deployment_plan(deployment_dir) ==
    LET byExt(e) == { f \in deployment_dir : f.ext = e }
    IN  IF byExt("json") # {} THEN byExt("json")
        ELSE IF byExt("yaml") # {} THEN byExt("yaml")
        ELSE byExt("yml")

\* json for a .json suffix, yaml for anything else
load_plan(doc) ==
    IF doc.ext = "json" THEN load_json_file(<< doc >>) ELSE load_yaml_file(<< doc >>)

\* a line of files_to_work_on.txt with its CREATE: / MODIFY: prefix removed
clean_path(line) == line.path

\* the files of workspaces/<agent> copied by integrate_agent: the listed
\* paths that exist in the workspace
copied_files(workspace) ==
    IF workspace.files_to_work_on = <<>> THEN {}
    ELSE { clean_path(l) : l \in { m \in workspace.files_to_work_on[1] :
                                       clean_path(m) \in workspace.sources } }

\* the test command integrate_agent picks
test_cmd(pm) == IF pm = "pnpm" THEN << "pnpm" >>
                ELSE IF pm = "npm" THEN << "npm" >> ELSE <<>>

\* integrate_agent for one agent, given the return code of the test command
\* and whether git commit succeeds (run_command raises when it does not)
integrate_agent(agent, workspace, pm, test_rc, commit_ok) ==
    IF workspace = <<>>
    THEN [copied |-> {}, tested |-> FALSE, committed |-> FALSE, result |-> "true"]
    ELSE LET files == copied_files(workspace[1])
         IN  IF test_cmd(pm) = <<>>
             THEN [copied |-> files, tested |-> FALSE, committed |-> FALSE,
                   result |-> "true"]
             ELSE IF test_rc # 0
             THEN [copied |-> files, tested |-> TRUE, committed |-> FALSE,
                   result |-> "false"]
             ELSE IF ~commit_ok
             THEN [copied |-> files, tested |-> TRUE, committed |-> FALSE,
                   result |-> "raised"]
             ELSE [copied |-> files, tested |-> TRUE, committed |-> TRUE,
                   result |-> "true"]

\* run_quality_checks: without pnpm every check counts as passed
run_quality_checks(pm, tests, linting, typecheck) ==
    IF pm = "pnpm"
    THEN [tests |-> tests, linting |-> linting, typecheck |-> typecheck]
    ELSE [tests |-> TRUE, linting |-> TRUE, typecheck |-> TRUE]

\* the status document the run writes last
integration_status_document(branch) ==
    [name |-> "integration-status", ext |-> "yaml", format |-> "yaml",
     data |-> [integration_complete |-> TRUE, integrated_at |-> "now",
               integration_branch |-> branch]]

(***************************************************************************)
(* integrate-parallel-work.py: one run of integrate_parallel_work          *)
(***************************************************************************)
IntIdle ==
    /\ i_pc = "idle"
    /\ i_in = [pm |-> "none", skip_tests |-> FALSE]
    /\ shared_coordination = {}
    /\ workspaces = <<>>
    /\ i_plan = <<>>
    /\ integration_order = <<>>
    /\ i_idx = 0
    /\ integration_branch = <<>>
    /\ merged = {}
    /\ tested = <<>>
    /\ commits = <<>>
    /\ quality_results = <<>>
    /\ reports = {}
    /\ i_failure = ""
    /\ i_exit = -1

\* agent ids of hand-written merge orders
IntAgents == {"x", "y", "z"}

IntegrationOrders ==
    { o \in SeqsUpTo(IntAgents, MaxAgents) : \A i, j \in 1..Len(o) : i # j => o[i] # o[j] }

\* a deployment plan in the format integrate reads (as agent-commit writes it)
order_plan_document(name, ext, order) ==
    [name |-> name, ext |-> ext, format |-> IF ext = "json" THEN "json" ELSE "yaml",
     data |-> [integration_order |-> order]]

\* what lines 118-134 of decompose compute for a list of requirements
decompose_plan(requirements) ==
    LET all == analyze_file_operations(requirements)
        domains == domain_groups(all)
    IN  generate_deployment_plan(TaskId, generate_exclusive_agents(domains, all))

\* plans persisted by decompose runs on one, two and three requirements
PersistedPlans ==
    { plan_document(decompose_plan(r)) :
        r \in { << {"auth", "login"} >>,
                << {"form", "auth"}, {"data"} >>,
                << {"api", "endpoint", "validation"}, {"auth", "login"}, {"data"} >> } }

GarbagePlan == [name |-> "broken", ext |-> "json", format |-> "garbage", data |-> <<>>]

\* contents of shared/deployment-plans a run may find
PlanDirs ==
    { {} } \cup { {p} : p \in PersistedPlans } \cup { {GarbagePlan} }
    \cup { {order_plan_document("a-plan", e, o)} :
               e \in {"json", "yaml", "yml"}, o \in { <<>>, <<"x", "y">>, <<"y", "x", "z">> } }
    \cup { {order_plan_document("a-plan", "yaml", <<"x">>), p} : p \in PersistedPlans }
    \cup { {order_plan_document("a-plan", "json", <<"x", "y">>),
            order_plan_document("b-plan", "json", <<"y", "x">>)} }

\* validation-status.json as a run may find it in the validation directory
ValidationStatusFiles ==
    { {} } \cup
    { { [name |-> "validation-status", ext |-> "json", format |-> f, data |-> d] } :
        f \in {"json", "garbage"},
        d \in { [validation_passed |-> TRUE], [validation_passed |-> FALSE],
                [validated_at |-> "t"] } }

\* workspaces/<agent> of the main checkout: absent, without a file list, or
\* with a one-line list whose file is or is not in the workspace
Workspace(agent) ==
    { <<>>,
      << [files_to_work_on |-> <<>>, sources |-> {}] >>,
      << [files_to_work_on |-> << { [prefix |-> "CREATE: ", path |-> agent] } >>,
          sources |-> {agent}] >>,
      << [files_to_work_on |-> << { [prefix |-> "MODIFY: ", path |-> agent] } >>,
          sources |-> {}] >> }

WorkspaceDirs == { w \in [IntAgents -> UNION { Workspace(a) : a \in IntAgents }] :
                       \A a \in IntAgents : w[a] \in Workspace(a) }

AllPresent == [a \in IntAgents |-> << [files_to_work_on |->
                                          << { [prefix |-> "CREATE: ", path |-> a] } >>,
                                       sources |-> {a}] >>]

\* integration-status.yaml as an earlier integrate run that reached its
\* report left it
EarlierIntegrationStatus ==
    [integration_status_document("integration/earlier")
        EXCEPT !.data.integrated_at = "earlier"]

\* runs whose coordination and plan directories vary, and runs whose merge
\* order, workspaces and tools vary
IntInit ==
    /\ i_pc = "start"
    /\ \/ /\ shared_coordination \in ValidationStatusFiles
          /\ deployment_plans \in PlanDirs
          /\ workspaces = AllPresent
          /\ i_in = [pm |-> "pnpm", skip_tests |-> FALSE]
       \/ /\ shared_coordination \in
                 { { [name |-> "validation-status", ext |-> "json", format |-> "json",
                      data |-> [validation_passed |-> TRUE]] } \cup earlier :
                     earlier \in { {}, {EarlierIntegrationStatus} } }
          /\ deployment_plans \in
                 { {order_plan_document("a-plan", "json", o)} : o \in IntegrationOrders }
          /\ workspaces \in WorkspaceDirs
          /\ i_in \in [pm : {"pnpm", "npm", "none"}, skip_tests : BOOLEAN]
    /\ i_plan = <<>>
    /\ integration_order = <<>>
    /\ i_idx = 0
    /\ integration_branch = <<>>
    /\ merged = {}
    /\ tested = <<>>
    /\ commits = <<>>
    /\ quality_results = <<>>
    /\ reports = {}
    /\ i_failure = ""
    /\ i_exit = -1

\* workspaces/<agent>: <<>> when the directory does not exist
workspace_dir(agent) == IF agent \in DOMAIN workspaces THEN workspaces[agent] ELSE <<>>

\* "Verify validation passed"
IVerify ==
    /\ i_pc = "start"
    /\ LET file == FileAt(shared_coordination, "validation-status", "json")
       IN  IF file = <<>>
           THEN i_pc' = "failed" /\ i_failure' = "no_validation_status" /\ i_exit' = 1
           ELSE IF ~validation_passed(load_json_file(file))
           THEN i_pc' = "failed" /\ i_failure' = "validation_not_passed" /\ i_exit' = 1
           ELSE i_pc' = "plan" /\ i_failure' = i_failure /\ i_exit' = i_exit
    /\ UNCHANGED << i_in, shared_coordination, workspaces, i_plan, integration_order,
                    i_idx, integration_branch, merged, tested, commits, quality_results,
                    reports, deployment_plans, moVars, raceVars, decVars, swVars >>

\* "Load deployment plan": find it, parse it, require integration_order
ILoadPlan ==
    /\ i_pc = "plan"
    /\ IF find_deployment_plan(deployment_plans) = {}
       THEN /\ i_pc' = "failed" /\ i_failure' = "no_plan" /\ i_exit' = 1
            /\ UNCHANGED << i_plan, integration_order >>
       ELSE \E doc \in find_deployment_plan(deployment_plans) :
              /\ i_plan' = << doc >>
              /\ LET deployment_plan == load_plan(doc)
                 IN  IF \/ deployment_plan = <<>>
                        \/ "integration_order" \notin DOMAIN deployment_plan[1]
                     THEN /\ i_pc' = "failed" /\ i_failure' = "invalid_plan"
                          /\ i_exit' = 1
                          /\ integration_order' = integration_order
                     ELSE /\ i_pc' = "branch" /\ i_failure' = i_failure
                          /\ i_exit' = i_exit
                          /\ integration_order' = deployment_plan[1].integration_order
    /\ UNCHANGED << i_in, shared_coordination, workspaces, i_idx, integration_branch,
                    merged, tested, commits, quality_results, reports,
                    deployment_plans, moVars, raceVars, decVars, swVars >>

\* "Create integration branch": git checkout -b, which raises when git fails
ICreateBranch ==
    /\ i_pc = "branch"
    /\ \E ok \in BOOLEAN :
         IF ok
         THEN /\ integration_branch' = << "integration" >>
              /\ i_pc' = "agents" /\ i_idx' = 1
              /\ UNCHANGED << i_failure, i_exit >>
         ELSE /\ i_pc' = "failed" /\ i_failure' = "branch_raised" /\ i_exit' = 1
              /\ UNCHANGED << integration_branch, i_idx >>
    /\ UNCHANGED << i_in, shared_coordination, workspaces, i_plan, integration_order,
                    merged, tested, commits, quality_results, reports,
                    deployment_plans, moVars, raceVars, decVars, swVars >>

\* one pass of "for agent in integration_order"
IIntegrateAgent ==
    /\ i_pc = "agents"
    /\ i_idx <= Len(integration_order)
    /\ \E test_rc \in {0, 1}, commit_ok \in BOOLEAN :
         LET agent == integration_order[i_idx]
             r == integrate_agent(agent, workspace_dir(agent), i_in.pm, test_rc, commit_ok)
         IN  /\ merged' = merged \cup { [agent |-> agent, file |-> f] : f \in r.copied }
             /\ tested' = IF r.tested THEN Append(tested, agent) ELSE tested
             /\ commits' = IF r.committed THEN Append(commits, agent) ELSE commits
             /\ IF r.result = "true"
                THEN i_idx' = i_idx + 1 /\ UNCHANGED << i_pc, i_failure, i_exit >>
                ELSE /\ i_idx' = i_idx
                     /\ i_pc' = "failed"
                     /\ i_failure' = IF r.result = "false" THEN "agent_failed"
                                     ELSE "commit_raised"
                     /\ i_exit' = 1
    /\ UNCHANGED << i_in, shared_coordination, workspaces, i_plan, integration_order,
                    integration_branch, quality_results, reports, deployment_plans,
                    moVars, raceVars, decVars, swVars >>

\* the quality gate with the check on the type-check result left out
IQualityGate_typecheck_unchecked ==
    /\ i_pc = "agents"
    /\ i_idx > Len(integration_order)
    /\ \E tests, linting, typecheck \in BOOLEAN :
         LET results == IF i_in.skip_tests
                        THEN [tests |-> TRUE, typecheck |-> TRUE]
                        ELSE run_quality_checks(i_in.pm, tests, linting, typecheck)
         IN  /\ quality_results' = << results >>
             /\ IF ~results.tests
                THEN i_pc' = "failed" /\ i_failure' = "tests_failed" /\ i_exit' = 1
                ELSE i_pc' = "report" /\ UNCHANGED << i_failure, i_exit >>
    /\ UNCHANGED << i_in, shared_coordination, workspaces, i_plan, integration_order,
                    i_idx, integration_branch, merged, tested, commits, reports,
                    deployment_plans, moVars, raceVars, decVars, swVars >>

\* the quality gate entered before the last agent of the merge order
IQualityGate_early ==
    /\ i_pc = "agents"
    /\ i_idx >= Len(integration_order)
    /\ \E tests, linting, typecheck \in BOOLEAN :
         LET results == IF i_in.skip_tests
                        THEN [tests |-> TRUE, typecheck |-> TRUE]
                        ELSE run_quality_checks(i_in.pm, tests, linting, typecheck)
         IN  /\ quality_results' = << results >>
             /\ IF ~results.tests
                THEN i_pc' = "failed" /\ i_failure' = "tests_failed" /\ i_exit' = 1
                ELSE IF ~results.typecheck
                THEN i_pc' = "failed" /\ i_failure' = "typecheck_failed" /\ i_exit' = 1
                ELSE i_pc' = "report" /\ UNCHANGED << i_failure, i_exit >>
    /\ UNCHANGED << i_in, shared_coordination, workspaces, i_plan, integration_order,
                    i_idx, integration_branch, merged, tested, commits, reports,
                    deployment_plans, moVars, raceVars, decVars, swVars >>

\* "Run final comprehensive validation" and the two checks on its results
IQualityGate ==
    /\ i_pc = "agents"
    /\ i_idx > Len(integration_order)
    /\ \E tests, linting, typecheck \in BOOLEAN :
         LET results == IF i_in.skip_tests
                        THEN [tests |-> TRUE, typecheck |-> TRUE]
                        ELSE run_quality_checks(i_in.pm, tests, linting, typecheck)
         IN  /\ quality_results' = << results >>
             /\ IF ~results.tests
                THEN i_pc' = "failed" /\ i_failure' = "tests_failed" /\ i_exit' = 1
                ELSE IF ~results.typecheck
                THEN i_pc' = "failed" /\ i_failure' = "typecheck_failed" /\ i_exit' = 1
                ELSE i_pc' = "report" /\ UNCHANGED << i_failure, i_exit >>
    /\ UNCHANGED << i_in, shared_coordination, workspaces, i_plan, integration_order,
                    i_idx, integration_branch, merged, tested, commits, reports,
                    deployment_plans, moVars, raceVars, decVars, swVars >>

\* generate_integration_report, then integration-status.yaml
IReport ==
    /\ i_pc = "report"
    /\ reports' = reports \cup { [branch |-> integration_branch[1],
                                  agents_integrated |-> integration_order,
                                  quality_results |-> quality_results[1]] }
    /\ shared_coordination' = WriteFile(shared_coordination,
                                        integration_status_document(integration_branch[1]))
    /\ i_pc' = "done"
    /\ i_exit' = 0
    /\ UNCHANGED << i_in, workspaces, i_plan, integration_order, i_idx,
                    integration_branch, merged, tested, commits, quality_results,
                    i_failure, deployment_plans, moVars, raceVars, decVars, swVars >>

(***************************************************************************)
(* Workspace manifests.  A text file of lines is a document whose data is  *)
(* the lines: a set where only membership is read (files_to_work_on.txt,   *)
(* test_contracts.txt), a sequence for the checklist.  A checklist line    *)
(* is [box, text]: the checkbox the line starts with after its number      *)
(* ("open" for "[ ]", "checked" for "[x]", "none"), and the criterion.     *)
(***************************************************************************)
TextFile(name, data) == [name |-> name, ext |-> "txt", format |-> "text", data |-> data]

\* the permutations of a finite set, as sequences
Orderings(S) ==
    { p \in [1..Cardinality(S) -> S] : \A i, j \in 1..Cardinality(S) : i # j => p[i] # p[j] }

\* criteria whose own text holds a checkbox token
CriterionHasOpenBox(text) == text = "keeps [ ] boxes"
CriterionHasCheckedBox(text) == text = "handles [x] marks"

\* "[ ]" in line, "[x]" in line
HasOpenBox(line) == line.box = "open" \/ CriterionHasOpenBox(line.text)
HasCheckedBox(line) == line.box = "checked" \/ CriterionHasCheckedBox(line.text)

(***************************************************************************)
(* spawn-agents.py                                                         *)
(***************************************************************************)
\* load_deployment_plan: json.load of the file; the block-style YAML that
\* yaml.dump(default_flow_style=False) writes for a mapping is not JSON, and
\* the JSONDecodeError is not caught (<<>>)
load_deployment_plan(doc) == IF doc.format = "json" THEN << doc.data >> ELSE <<>>

RECURSIVE UniqueFrom(_, _, _)
UniqueFrom(agents, parallelAgents, i) ==
    IF i > Len(parallelAgents) THEN agents
    ELSE LET agent_id == Get(parallelAgents[i], "agentId", "")
         IN  UniqueFrom(IF agent_id # "" /\ ~Contains(agents, agent_id)
                        THEN Append(agents, agent_id) ELSE agents,
                        parallelAgents, i + 1)

get_unique_agents(plan) == UniqueFrom(<<>>, Get(plan, "parallelAgents", <<>>), 1)

\* [a for a in plan.get("parallelAgents", []) if a.get("agentId") == agent_id]
agent_instances(plan, agent_id) ==
    SelectSeq(Get(plan, "parallelAgents", <<>>), LAMBDA a : Get(a, "agentId", "") = agent_id)

\* set(sum((a.get(key, []) for a in agent_data), []))
AllOf(agent_data, key) ==
    UNION { Range(Get(agent_data[i], key, <<>>)) : i \in 1..Len(agent_data) }

create_agent_context(plan, agent_id, branch_name) ==
    LET agent_data == agent_instances(plan, agent_id)
    IN  [agentId |-> agent_id,
         taskId |-> Get(plan, "taskId", ""),
         branchName |-> branch_name,
         agentInstances |-> agent_data,
         dependencies |-> UNION { Get(agent_data[i], "dependencies", {}) :
                                      i \in 1..Len(agent_data) },
         allFilesToCreate |-> AllOf(agent_data, "filesToCreate"),
         allFilesToModify |-> AllOf(agent_data, "filesToModify"),
         allValidationCriteria |-> AllOf(agent_data, "validationCriteria"),
         canStartImmediately |-> \A i \in 1..Len(agent_data) :
                                     Get(agent_data[i], "dependencies", {}) = {}]

\* the files create_agent_files writes, for one order of list(set(criteria))
create_agent_files(agent_context, agent_data, criteria_order) ==
    { [name |-> "agent_context", ext |-> "yaml", format |-> "yaml", data |-> agent_context],
      TextFile("files_to_work_on",
               { [prefix |-> "CREATE: ", path |-> f] : f \in AllOf(agent_data, "filesToCreate") }
               \cup
               { [prefix |-> "MODIFY: ", path |-> f] : f \in AllOf(agent_data, "filesToModify") }),
      TextFile("test_contracts", AllOf(agent_data, "testContracts")),
      TextFile("validation_checklist",
               [i \in 1..Len(criteria_order) |-> [box |-> "open", text |-> criteria_order[i]]]) }

\* create_coordination_status with canStartImmediately left at its initial True
create_coordination_status_simplified(plan, agents) ==
    [name |-> "parallel-agent-status", ext |-> "yaml", format |-> "yaml",
     data |-> [taskId |-> Get(plan, "taskId", ""),
               totalAgents |-> Len(agents),
               agents |-> [i \in 1..Len(agents) |->
                   LET deps == UNION { Get(a, "dependencies", {}) :
                                         a \in Range(agent_instances(plan, agents[i])) }
                   IN  [agentId |-> agents[i], status |-> "spawned",
                        canStartImmediately |-> TRUE,
                        dependencies |-> deps]]]]

\* the document create_coordination_status writes
create_coordination_status(plan, agents) ==
    [name |-> "parallel-agent-status", ext |-> "yaml", format |-> "yaml",
     data |-> [taskId |-> Get(plan, "taskId", ""),
               totalAgents |-> Len(agents),
               agents |-> [i \in 1..Len(agents) |->
                   LET deps == UNION { Get(a, "dependencies", {}) :
                                         a \in Range(agent_instances(plan, agents[i])) }
                   IN  [agentId |-> agents[i], status |-> "spawned",
                        canStartImmediately |-> (deps = {}),
                        dependencies |-> deps]]]]

(***************************************************************************)
(* validate-parallel-work.py.  The work-trees directory is a set of        *)
(* worktrees [name, workspaces], a workspace is [dir, files].              *)
(***************************************************************************)
\* the (worktree, workspace) pairs in an order the two nested iterdir loops
\* can visit them: the workspaces of one worktree come together
Listings(trees) ==
    LET pairs == UNION { { [worktree |-> t.name, workspace |-> w] : w \in t.workspaces } :
                           t \in trees }
    IN  { p \in Orderings(pairs) :
            \A i, j, k \in 1..Len(p) :
                (i < j /\ j < k /\ p[i].worktree = p[k].worktree)
                    => p[j].worktree = p[i].worktree }

RECURSIVE DiscoverFrom(_, _, _)
DiscoverFrom(found, listing, i) ==
    IF i > Len(listing) THEN found
    ELSE LET workspace == listing[i].workspace
             context_file == FileAt(workspace.files, "agent_context", "json")
             context_data == load_json_file(context_file)
             final_agent_id == IF /\ context_data # <<>>
                                  /\ "agentId" \in DOMAIN context_data[1]
                               THEN context_data[1].agentId
                               ELSE workspace.dir
         IN  DiscoverFrom(IF /\ context_file # <<>>
                             /\ \A n \in 1..Len(found) : found[n].agent # final_agent_id
                          THEN Append(found, [agent |-> final_agent_id,
                                              worktree |-> listing[i].worktree])
                          ELSE found,
                          listing, i + 1)

\* discover_agents: (agent, worktree) in order of discovery
discover_agents(listing) == DiscoverFrom(<<>>, listing, 1)

AgentIdsOf(found) == [i \in 1..Len(found) |-> found[i].agent]

\* <worktree>/workspaces/<agent>: <<>> or <<workspace>>
WorkspaceOf(trees, worktree, agent) ==
    LET found == UNION { { w \in t.workspaces : w.dir = agent } :
                           t \in { u \in trees : u.name = worktree } }
    IN  IF found = {} THEN <<>> ELSE << CHOOSE w \in found : TRUE >>

\* the mutant of check_agent_completion: an agent with a checklist file counts
\* as complete
check_agent_completion_lax(workspace) ==
    /\ workspace # <<>>
    /\ \/ FileAt(workspace[1].files, "COMPLETED", "") # <<>>
       \/ FileAt(workspace[1].files, "validation_checklist", "txt") # <<>>

\* check_agent_completion on the workspace directory of the agent
check_agent_completion(workspace) ==
    IF workspace = <<>> THEN FALSE
    ELSE IF FileAt(workspace[1].files, "COMPLETED", "") # <<>> THEN TRUE
    ELSE LET checklist_file == FileAt(workspace[1].files, "validation_checklist", "txt")
         IN  /\ checklist_file # <<>>
             /\ \A i \in 1..Len(checklist_file[1].data) :
                    ~HasOpenBox(checklist_file[1].data[i])

\* validate_agent_work: fails only on a missing workspace directory
validate_agent_work(workspace) == workspace # <<>>

\* check_file_conflicts: a path listed twice over the completed agents
check_file_conflicts(trees, completed) ==
    LET claims == UNION { LET workspace == WorkspaceOf(trees, completed[i].worktree,
                                                       completed[i].agent)
                              list == IF workspace = <<>> THEN <<>>
                                      ELSE FileAt(workspace[1].files, "files_to_work_on", "txt")
                          IN  IF list = <<>> THEN {}
                              ELSE { [agent |-> i, line |-> l] : l \in list[1].data } :
                          i \in 1..Len(completed) }
    IN  \E c1, c2 \in claims : c1 # c2 /\ c1.line.path = c2.line.path

\* the document create_validation_status leaves: the json.dump overwrites
\* the yaml.dump of the same path
create_validation_status(passed, completed) ==
    [name |-> "validation-status", ext |-> "json", format |-> "json",
     data |-> [validation_passed |-> passed,
               validated_at |-> "now",
               agents_validated |-> IF passed THEN completed ELSE <<>>,
               ready_for_integration |-> passed]]

\* one run of validate_parallel_work on the work-trees directory, for one
\* directory listing: what it wrote and how it ended
validate_parallel_work(dir_exists, coord, trees, listing) ==
    LET spawned == discover_agents(listing)
        done(a) == check_agent_completion(WorkspaceOf(trees, a.worktree, a.agent))
        completed == SelectSeq(spawned, done)
        pending == SelectSeq(spawned, LAMBDA a : ~done(a))
        passed == /\ \A i \in 1..Len(completed) :
                        validate_agent_work(WorkspaceOf(trees, completed[i].worktree,
                                                        completed[i].agent))
                  /\ ~check_file_conflicts(trees, completed)
        stop(why) == [failure |-> why, exit |-> 1, coordination |-> coord,
                      spawned |-> <<>>, pending |-> <<>>]
    IN  IF ~dir_exists THEN stop("no_worktrees_dir")
        ELSE IF FileAt(coord, "parallel-agent-status", "json") = <<>>
        THEN stop("no_coordination_status")
        ELSE IF spawned = <<>> THEN stop("no_agents")
        ELSE IF pending # <<>>
        THEN [failure |-> "pending", exit |-> 1, coordination |-> coord,
              spawned |-> spawned, pending |-> pending]
        ELSE [failure |-> IF passed THEN "" ELSE "validation_failed",
              exit |-> IF passed THEN 0 ELSE 1,
              coordination |-> WriteFile(coord,
                                  create_validation_status(passed, AgentIdsOf(completed))),
              spawned |-> spawned, pending |-> pending]

(***************************************************************************)
(* agent-commit.py                                                         *)
(***************************************************************************)
\* load_agent_context: the context dict, "missing" (exit 1) or "raised" (the
\* parser's exception is not caught)
load_agent_context(files) ==
    LET yaml_file == FileAt(files, "agent_context", "yaml")
        json_file == FileAt(files, "agent_context", "json")
    IN  IF yaml_file # <<>>
        THEN IF load_yaml_file(yaml_file) # <<>>
             THEN [kind |-> "ok", context |-> load_yaml_file(yaml_file)[1]]
             ELSE [kind |-> "raised"]
        ELSE IF json_file # <<>>
        THEN IF load_json_file(json_file) # <<>>
             THEN [kind |-> "ok", context |-> load_json_file(json_file)[1]]
             ELSE [kind |-> "raised"]
        ELSE [kind |-> "missing"]

\* validate_agent_completion: (completed, total) or the reason of sys.exit(1)
validate_agent_completion(files) ==
    LET checklist_file == FileAt(files, "validation_checklist", "txt")
        lines == checklist_file[1].data
        completed == Cardinality({ i \in 1..Len(lines) : HasCheckedBox(lines[i]) })
        total == Cardinality({ i \in 1..Len(lines) :
                                 HasOpenBox(lines[i]) \/ HasCheckedBox(lines[i]) })
    IN  IF checklist_file = <<>> THEN [kind |-> "no_checklist"]
        ELSE IF total = 0 THEN [kind |-> "no_items"]
        ELSE IF completed < total THEN [kind |-> "incomplete"]
        ELSE [kind |-> "ok", completed |-> completed, total |-> total]

\* monitor-agents.py, get_agent_progress: the status it shows for the
\* checklist of a workspace (the work-tree root holds no checklist of its own)
get_agent_progress(files) ==
    LET checklist_file == FileAt(files, "validation_checklist", "txt")
        lines == checklist_file[1].data
        completed == Cardinality({ i \in 1..Len(lines) : HasCheckedBox(lines[i]) })
        total == Cardinality({ i \in 1..Len(lines) :
                                 HasOpenBox(lines[i]) \/ HasCheckedBox(lines[i]) })
        progress == (completed * 100) \div total
    IN  IF checklist_file # <<>> /\ total > 0
        THEN [completed |-> completed, total |-> total, progress |-> progress,
              status |-> IF progress = 100 THEN "complete" ELSE "in_progress"]
        ELSE [completed |-> 0, total |-> 0, progress |-> 0, status |-> "ready"]

\* verify_files: every CREATE: line names a file of the checkout
verify_files(files, existing) ==
    LET list == FileAt(files, "files_to_work_on", "txt")
    IN  \/ list = <<>>
        \/ \A l \in list[1].data : l.prefix = "CREATE: " => l.path \in existing

\* the three documents create_coordination_files writes
commit_validation_status(agent_id, validation) ==
    [name |-> "validation-status", ext |-> "yaml", format |-> "yaml",
     data |-> [validation_passed |-> TRUE, agent_id |-> agent_id,
               validation_criteria |-> validation.completed,
               total_criteria |-> validation.total]]

commit_integration_status(agent_id) ==
    [name |-> "integration-status", ext |-> "yaml", format |-> "yaml",
     data |-> [integration_ready |-> TRUE, agent_id |-> agent_id,
               integration_order |-> << agent_id >>]]

commit_deployment_plan(agent_id) ==
    [name |-> agent_id, ext |-> "yaml", format |-> "yaml",
     data |-> [integration_order |-> << agent_id >>,
               deployment_strategy |-> "single_agent_merge"]]

\* preserve_agent_workspace: the top-level files of the workspace, as
\* workspaces/<agent_id> of the checkout
preserve_agent_workspace(files) ==
    LET list == FileAt(files, "files_to_work_on", "txt")
    IN  [files_to_work_on |-> IF list = <<>> THEN <<>> ELSE << list[1].data >>,
         sources |-> {}]

(***************************************************************************)
(* spawn-agents.py: one run of spawn_agents                                *)
(***************************************************************************)
\* most agent records in a hand-written plan
MaxPlanAgents == 2

SpawnIdle ==
    /\ s_pc = "idle"
    /\ s_in = <<>>
    /\ s_plan = <<>>
    /\ s_agents = <<>>
    /\ s_idx = 0
    /\ s_created = <<>>
    /\ s_failure = ""
    /\ s_exit = -1

WorktreesIdle ==
    /\ worktrees_dir = FALSE
    /\ coordination = {}
    /\ worktrees = {}

\* f"{task_id}-{agent_id}": the branch and the name of the worktree
branch_name(task_id, agent_id) == << task_id, agent_id >>

\* agent records of plans written by hand or by earlier tools
SpawnAgentDicts ==
    [agentId : {"a", "b"},
     dependencies : { {}, {"a"} },
     filesToCreate : { <<"src/a.ts">> },
     filesToModify : { <<>> },
     validationCriteria : { <<>>, <<"tests pass">>, <<"tests pass", "lint clean">> }]

JsonPlan(name, data) == [name |-> name, ext |-> "json", format |-> "json", data |-> data]

\* answers of the LLM decomposer that the hybrid path converts into a plan
HybridAnswers ==
    { [confidence |-> 9, agents |-> ag] :
        ag \in { << [agentId |-> "llm_a", dependencies |-> {}, filesToCreate |-> <<"src/a.ts">>,
                     filesToModify |-> <<>>] >>,
                 << [agentId |-> "llm_a", dependencies |-> {}, filesToCreate |-> <<"src/a.ts">>,
                     filesToModify |-> <<>>],
                    [agentId |-> "llm_b", dependencies |-> {"llm_a"},
                     filesToCreate |-> <<"src/b.ts">>, filesToModify |-> <<"src/a.ts">>] >> } }

\* a plan whose one agent has the ordered criteria a, b, c
OrderedCriteriaPlan ==
    JsonPlan("criteria-plan",
             [taskId |-> TaskId,
              parallelAgents |-> << [agentId |-> "a", dependencies |-> {},
                                     filesToCreate |-> <<"src/a.ts">>,
                                     filesToModify |-> <<>>,
                                     validationCriteria |-> <<"a", "b", "c">>] >>])

\* the plan files a run may be given: plans as decompose saved them, the
\* same plans and plans of the hybrid path re-encoded as JSON, JSON plans
\* of up to MaxPlanAgents records, and the plan with three ordered criteria
SpawnPlans ==
    PersistedPlans
    \cup { JsonPlan(p.name, p.data) : p \in PersistedPlans }
    \cup { JsonPlan("hybrid-plan", convert_llm_result_to_deployment_plan(TaskId, r)) :
               r \in HybridAnswers }
    \cup { OrderedCriteriaPlan }
    \cup { JsonPlan("plan", [taskId |-> TaskId, parallelAgents |-> ag]) :
               ag \in SeqsUpTo(SpawnAgentDicts, MaxPlanAgents) }

LegacyStatus == JsonPlan("parallel-agent-status", [taskId |-> TaskId, agents |-> <<>>])

\* the work-tree of agent a as an earlier spawn run created it and the agent
\* has since worked on it: one checklist item is ticked
WorkedWorktree ==
    [name |-> branch_name(TaskId, "a"),
     workspaces |->
        { [dir |-> "a",
           files |-> { [name |-> "agent_context", ext |-> "yaml", format |-> "yaml",
                        data |-> [agentId |-> "a"]],
                       TextFile("files_to_work_on",
                                { [prefix |-> "CREATE: ", path |-> "src/earlier.ts"] }),
                       TextFile("test_contracts", {"tests/earlier.test.ts"}),
                       TextFile("validation_checklist",
                                << [box |-> "checked", text |-> "earlier criterion"],
                                   [box |-> "open", text |-> "tests pass"] >>) }] }]

SpawnInit ==
    /\ s_pc = "load"
    /\ s_in \in { << p >> : p \in SpawnPlans }
    /\ s_plan = <<>>
    /\ s_agents = <<>>
    /\ s_idx = 0
    /\ s_created = <<>>
    /\ s_failure = ""
    /\ s_exit = -1
    /\ worktrees_dir \in BOOLEAN
    /\ coordination \in IF worktrees_dir THEN { {}, {LegacyStatus} } ELSE { {} }
    /\ worktrees \in IF worktrees_dir
                     THEN { {}, { [name |-> branch_name(TaskId, "a"), workspaces |-> {}] },
                            { WorkedWorktree } }
                     ELSE { {} }

\* load_deployment_plan, get_unique_agents, mkdir of the two directories
SLoadPlan ==
    /\ s_pc = "load"
    /\ LET loaded == load_deployment_plan(s_in[1])
       IN  IF loaded = <<>>
           THEN /\ s_pc' = "failed" /\ s_failure' = "plan_unreadable" /\ s_exit' = 1
                /\ UNCHANGED << s_plan, s_agents, s_idx, worktrees_dir >>
           ELSE /\ s_plan' = loaded
                /\ s_agents' = get_unique_agents(loaded[1])
                /\ s_idx' = 1
                /\ worktrees_dir' = TRUE
                /\ s_pc' = "agents"
                /\ UNCHANGED << s_failure, s_exit >>
    /\ UNCHANGED << s_in, s_created, coordination, worktrees, valVars, comVars,
                    moVars, raceVars, decVars, intVars, deployment_plans >>

\* worktree_exists that never finds the work-tree
worktree_exists_never(trees, name) == FALSE

\* if worktree_path.exists(): ... continue
worktree_exists(trees, name) == \E t \in trees : t.name = name

\* one pass of "for agent_id in agents"; git worktree add raises when it fails
SSpawnAgent ==
    /\ s_pc = "agents"
    /\ s_idx <= Len(s_agents)
    /\ LET agent_id == s_agents[s_idx]
           name == branch_name(Get(s_plan[1], "taskId", "unknown"), agent_id)
           agent_data == agent_instances(s_plan[1], agent_id)
           agent_context == create_agent_context(s_plan[1], agent_id, name)
       IN  IF worktree_exists(worktrees, name)
           THEN /\ s_idx' = s_idx + 1
                /\ UNCHANGED << worktrees, s_created, s_pc, s_failure, s_exit >>
           ELSE \E ok \in BOOLEAN,
                   criteria_order \in Orderings(AllOf(agent_data, "validationCriteria")) :
                  IF ok
                  THEN /\ worktrees' = { t \in worktrees : t.name # name } \cup
                            { [name |-> name,
                               workspaces |->
                                  { [dir |-> agent_id,
                                     files |-> create_agent_files(agent_context, agent_data,
                                                                  criteria_order)] }] }
                       /\ s_created' = Append(s_created, agent_id)
                       /\ s_idx' = s_idx + 1
                       /\ UNCHANGED << s_pc, s_failure, s_exit >>
                  ELSE /\ s_pc' = "failed" /\ s_failure' = "git_raised" /\ s_exit' = 1
                       /\ UNCHANGED << worktrees, s_created, s_idx >>
    /\ UNCHANGED << s_in, s_plan, s_agents, worktrees_dir, coordination, valVars, comVars,
                    moVars, raceVars, decVars, intVars, deployment_plans >>

\* create_coordination_status and the summary
SCoordinationStatus ==
    /\ s_pc = "agents"
    /\ s_idx > Len(s_agents)
    /\ coordination' = WriteFile(coordination, create_coordination_status(s_plan[1], s_agents))
    /\ s_pc' = "done"
    /\ s_exit' = 0
    /\ UNCHANGED << s_in, s_plan, s_agents, s_idx, s_created, s_failure, worktrees_dir,
                    worktrees, valVars, comVars, moVars, raceVars, decVars, intVars,
                    deployment_plans >>

(***************************************************************************)
(* validate-parallel-work.py and agent-commit.py: one run of each          *)
(***************************************************************************)
ValIdle ==
    /\ v_pc = "idle"
    /\ spawned_agents = <<>>
    /\ pending_agents = <<>>
    /\ v_failure = ""
    /\ v_exit = -1

ValStart ==
    /\ v_pc = "start"
    /\ spawned_agents = <<>>
    /\ pending_agents = <<>>
    /\ v_failure = ""
    /\ v_exit = -1

ComIdle ==
    /\ c_pc = "idle"
    /\ c_workspace = <<>>
    /\ c_committed = FALSE
    /\ c_failure = ""
    /\ c_exit = -1

ComStart ==
    /\ c_pc = "start"
    /\ c_workspace = <<>>
    /\ c_committed = FALSE
    /\ c_failure = ""
    /\ c_exit = -1

\* checklist lines as agents leave them
ChecklistLines ==
    { [box |-> "open", text |-> "tests pass"],
      [box |-> "checked", text |-> "tests pass"],
      [box |-> "none", text |-> "tests pass"],
      [box |-> "open", text |-> "handles [x] marks"],
      [box |-> "checked", text |-> "keeps [ ] boxes"] }

ContextFiles(dir) ==
    { {},
      { JsonPlan("agent_context", [agentId |-> dir]) },
      { JsonPlan("agent_context", [agentId |-> "other"]) },
      { [name |-> "agent_context", ext |-> "yaml", format |-> "yaml",
         data |-> [agentId |-> dir]] } }

Marker == { {}, { [name |-> "COMPLETED", ext |-> "", format |-> "text", data |-> <<>>] } }

FileLists(paths) ==
    { {} } \cup { { TextFile("files_to_work_on", { [prefix |-> "CREATE: ", path |-> p] }) } :
                    p \in paths }

Checklists ==
    { {} } \cup { { TextFile("validation_checklist", lines) } :
                    lines \in SeqsUpTo(ChecklistLines, MaxLines) }

\* the workspaces an agent directory may hold
WorkspacesOf(dir, paths) ==
    { [dir |-> dir, files |-> c \cup m \cup f \cup l] :
        c \in ContextFiles(dir), m \in Marker, f \in FileLists(paths), l \in Checklists }

\* a second worktree, whose agent is finished or not and shares a path or not
SecondWorktrees ==
    { {} } \cup
    { { [name |-> branch_name(TaskId, "b"),
         workspaces |-> { [dir |-> "b",
                           files |-> { JsonPlan("agent_context", [agentId |-> "b"]) }
                                     \cup f \cup l] }] } :
        f \in FileLists({"src/a.ts", "src/b.ts"}),
        l \in { {}, { TextFile("validation_checklist",
                               << [box |-> "checked", text |-> "tests pass"] >>) },
                { TextFile("validation_checklist",
                           << [box |-> "open", text |-> "tests pass"] >>) } } }

\* validation-status.json as a validate run that passed for agent a left it
EarlierValidationStatus ==
    [create_validation_status(TRUE, << "a" >>) EXCEPT !.data.validated_at = "earlier"]

ValInit ==
    /\ ValStart
    /\ ComStart
    /\ worktrees_dir = TRUE
    /\ coordination \in { {}, {LegacyStatus}, {LegacyStatus, EarlierValidationStatus} }
    /\ \/ /\ LegacyStatus \in coordination
          /\ worktrees \in
                { { [name |-> branch_name(TaskId, "a"), workspaces |-> {w}] } \cup second :
                    w \in WorkspacesOf("a", {"src/a.ts"}), second \in SecondWorktrees }
       \/ worktrees \in { {}, { [name |-> branch_name(TaskId, "a"), workspaces |-> {}] } }

\* validate_parallel_work, whole; it runs when no spawn is under way
Validate ==
    /\ v_pc = "start"
    /\ s_pc \in {"idle", "done", "failed"}
    /\ \E listing \in Listings(worktrees) :
         LET r == validate_parallel_work(worktrees_dir, coordination, worktrees, listing)
         IN  /\ coordination' = r.coordination
             /\ spawned_agents' = r.spawned
             /\ pending_agents' = AgentIdsOf(r.pending)
             /\ v_failure' = r.failure
             /\ v_exit' = r.exit
    /\ v_pc' = "done"
    /\ UNCHANGED << worktrees_dir, worktrees, spawnVars, comVars, moVars, raceVars, decVars,
                    intVars, deployment_plans >>

\* agent_commit, whole, run in the checkout of one worktree on one of its
\* workspaces; existing is the set of files of the checkout, has_changes and
\* commit_ok what git finds and whether its commit and merge succeed
AgentCommit ==
    /\ c_pc = "start"
    /\ \E t \in worktrees : \E w \in t.workspaces :
       \E existing \in SUBSET {"src/a.ts"}, has_changes, commit_ok \in BOOLEAN :
         LET context == load_agent_context(w.files)
             validation == validate_agent_completion(w.files)
             agent_id == Get(context.context, "agentId", "unknown")
             stop(why) == /\ c_failure' = why /\ c_exit' = 1 /\ c_pc' = "failed"
                          /\ UNCHANGED << shared_coordination, deployment_plans, reports,
                                          workspaces, c_committed >>
         IN  /\ c_workspace' = << [worktree |-> t.name, dir |-> w.dir] >>
             /\ IF context.kind # "ok" THEN stop(IF context.kind = "missing" THEN "context_missing"
                                                ELSE "context_raised")
                ELSE IF validation.kind # "ok" THEN stop(validation.kind)
                ELSE IF ~verify_files(w.files, existing) THEN stop("files_missing")
                ELSE /\ shared_coordination' =
                            WriteFile(WriteFile(shared_coordination,
                                                commit_validation_status(agent_id, validation)),
                                      commit_integration_status(agent_id))
                     /\ deployment_plans' = WriteFile(deployment_plans,
                                                      commit_deployment_plan(agent_id))
                     /\ reports' = reports \cup { [agent |-> agent_id] }
                     /\ workspaces' = [a \in DOMAIN workspaces \cup {agent_id} |->
                                          IF a = agent_id
                                          THEN << preserve_agent_workspace(w.files) >>
                                          ELSE workspaces[a]]
                     /\ c_committed' = (has_changes /\ commit_ok)
                     /\ IF has_changes /\ ~commit_ok
                        THEN c_failure' = "git_raised" /\ c_exit' = 1 /\ c_pc' = "failed"
                        ELSE c_failure' = c_failure /\ c_exit' = 0 /\ c_pc' = "done"
    /\ UNCHANGED << worktrees_dir, coordination, worktrees, spawnVars, valVars, moVars, raceVars,
                    decVars, i_pc, i_in, i_plan, integration_order, i_idx,
                    integration_branch, merged, tested, commits, quality_results,
                    i_failure, i_exit >>

(***************************************************************************)
(* Specifications                                                          *)
(***************************************************************************)
(***************************************************************************)
(* Two invocations writing one status file.  Every status file is written  *)
(* with `with open(path, "w") as f: dump(document, f)`: open truncates the  *)
(* file, the document is buffered, and leaving the with-block writes the    *)
(* buffer at the writer's own offset 0.  No writer takes a lock, renames a  *)
(* temporary file or compares a version.                                    *)
(***************************************************************************)
\* most blocks in a status document
MaxBlocks == 2

\* the writers of a status file: two validate runs write
\* validation-status.json, agent-commit and integrate write
\* shared/coordination/integration-status.yaml
Writers(path) ==
    IF path = "validation-status.json"
        THEN {"validate-1", "validate-2"}
        ELSE {"agent-commit", "integrate"}

\* create_validation_status dumps the status twice to the same path, as
\* YAML and then as JSON; agent-commit and integrate dump once
DumpsPerRun(path) == IF path = "validation-status.json" THEN 2 ELSE 1

\* the k-th document of a writer, n blocks long
Document(w, k, n) == [i \in 1..n |-> [by |-> w, dump |-> k, part |-> i]]

\* what the disk holds before the two invocations start
EarlierDocument == << [by |-> "earlier", dump |-> 1, part |-> 1] >>

\* write(2) at offset 0 of a file that another writer may have filled since
\* this writer's open truncated it: the document replaces the first blocks
\* and whatever lies beyond its end stays
Overlay_append(doc, file) == file \o doc

Overlay(doc, file) ==
    IF Len(file) > Len(doc)
        THEN doc \o SubSeq(file, Len(doc) + 1, Len(file))
        ELSE doc

RaceIdle ==
    /\ r_file = <<>>
    /\ r_path = ""
    /\ r_todo = <<>>
    /\ r_done = <<>>
    /\ r_pc = <<>>

RaceInit ==
    /\ r_path \in {"validation-status.json", "integration-status.yaml"}
    /\ r_file \in {<<>>, EarlierDocument}
    /\ r_todo \in [Writers(r_path) -> [1..DumpsPerRun(r_path) -> 1..MaxBlocks]]
    /\ r_done = [w \in Writers(r_path) |-> 0]
    /\ r_pc = [w \in Writers(r_path) |-> "closed"]

\* open(path, "w")
ROpen(w) ==
    /\ r_pc[w] = "closed"
    /\ r_file' = <<>>
    /\ r_pc' = [r_pc EXCEPT ![w] = "open"]
    /\ UNCHANGED << r_path, r_todo, r_done >>
    /\ UNCHANGED << moVars, decVars, deployment_plans, intVars, swVars >>

\* dump(document, f) and the end of the with-block
RClose(w) ==
    /\ r_pc[w] = "open"
    /\ LET k == r_done[w] + 1
       IN  /\ r_file' = Overlay(Document(w, k, r_todo[w][k]), r_file)
           /\ r_done' = [r_done EXCEPT ![w] = k]
           /\ r_pc' = [r_pc EXCEPT ![w] = IF k = Len(r_todo[w]) THEN "done" ELSE "closed"]
    /\ UNCHANGED << r_path, r_todo >>
    /\ UNCHANGED << moVars, decVars, deployment_plans, intVars, swVars >>

\* calculate_merge_order on every agent list within the bounds
OthersIdle == SpawnIdle /\ WorktreesIdle /\ ValIdle /\ ComIdle

InitMergeOrder ==
    MoInit /\ DecIdle /\ IntIdle /\ OthersIdle /\ RaceIdle /\ deployment_plans = {}
NextMergeOrder == MoIterate \/ MoReturn
SpecMergeOrder == InitMergeOrder /\ [][NextMergeOrder]_vars

\* one run of the decompose command
InitDecompose ==
    DecInit /\ MoIdle /\ IntIdle /\ OthersIdle /\ RaceIdle /\ deployment_plans = {}
NextDecompose ==
    \/ load_linear_issue
    \/ try_hybrid_analysis
    \/ DAnalyze
    \/ DGraph
    \/ DDomains
    \/ DAgents
    \/ DValidate
    \/ DPlan
    \/ DSave
    \/ DReturn
    \/ DExit
SpecDecompose == InitDecompose /\ [][NextDecompose]_vars

\* one run of the integrate command
InitIntegrate == IntInit /\ MoIdle /\ DecIdle /\ OthersIdle /\ RaceIdle
NextIntegrate ==
    \/ IVerify
    \/ ILoadPlan
    \/ ICreateBranch
    \/ IIntegrateAgent
    \/ IQualityGate
    \/ IReport
SpecIntegrate == InitIntegrate /\ [][NextIntegrate]_vars

\* two invocations writing the same status file
InitStatusRace ==
    /\ RaceInit /\ MoIdle /\ DecIdle /\ IntIdle /\ OthersIdle
    /\ deployment_plans = {}
NextStatusRace ==
    \/ \E w \in Writers(r_path) : ROpen(w)
    \/ \E w \in Writers(r_path) : RClose(w)
SpecStatusRace == InitStatusRace /\ [][NextStatusRace]_vars

\* one run of the spawn command, followed by one run of the validate command
InitSpawn ==
    /\ SpawnInit /\ ValStart /\ ComIdle
    /\ MoIdle /\ DecIdle /\ IntIdle /\ RaceIdle /\ deployment_plans = {}
NextSpawn ==
    \/ SLoadPlan
    \/ SSpawnAgent
    \/ SCoordinationStatus
    \/ Validate
SpecSpawn == InitSpawn /\ [][NextSpawn]_vars

\* one run of the validate command and one of agent-commit on work-trees as
\* agents leave them
InitValidate ==
    /\ ValInit /\ SpawnIdle
    /\ MoIdle /\ DecIdle /\ IntIdle /\ RaceIdle /\ deployment_plans = {}
NextValidate == Validate \/ AgentCommit
SpecValidate == InitValidate /\ [][NextValidate]_vars

(***************************************************************************)
(* Properties                                                              *)
(***************************************************************************)
\* the agent records of the plan a decompose run returned
ReturnedAgents == IF d_result = <<>> THEN <<>> ELSE d_result[1].parallelAgents

PlanFiles(a) == Range(a.filesToCreate) \cup Range(a.filesToModify)

\* some path is claimed by two agents (of different ids) of the list
SharedPath(planAgents) ==
    \E i, j \in 1..Len(planAgents) :
        /\ planAgents[i].agentId # planAgents[j].agentId
        /\ PlanFiles(planAgents[i]) \cap PlanFiles(planAgents[j]) # {}

\* C1 (as claimed): whenever a decompose run has returned a deployment plan,
\* by the pattern-based path or by the hybrid path, no file path is in the
\* filesToCreate/filesToModify of two agents of that plan.
C1_Exclusivity == d_result # <<>> => ~SharedPath(ReturnedAgents)

\* the dependency relation among ids: id -> each id it depends on
DepEdges(agents) ==
    UNION { { <<agents[i].id, d>> : d \in agents[i].dependencies } : i \in 1..Len(agents) }

RECURSIVE Closure(_, _)
Closure(R, n) ==
    IF n = 0 THEN R
    ELSE Closure(R \cup { <<p[1][1], p[2][2]>> : p \in { q \in R \X R : q[1][2] = q[2][1] } },
                 n - 1)

Acyclic(agents) ==
    \A e \in Closure(DepEdges(agents), Len(agents)) : e[1] # e[2]

\* every named dependency is the id of an agent of the list
Resolvable(agents) ==
    \A i \in 1..Len(agents) : agents[i].dependencies \subseteq Range(AgentIds(agents))

\* the agent's id occurs in order, after an occurrence of each of its dependencies
PlacedAfterDependencies(agent, order) ==
    /\ Contains(order, agent.id)
    /\ \A dep \in agent.dependencies :
           \E i, j \in 1..Len(order) : i < j /\ order[i] = dep /\ order[j] = agent.id

\* C2: when the dependency graph of the agent list is acyclic and every named
\* dependency is the id of an agent of the list, the sequence that
\* calculate_merge_order returns has one entry per agent and places every
\* agent's id after the ids of all its dependencies.
C2_OrderingSound ==
    (mo_pc = "done" /\ Acyclic(mo_agents) /\ Resolvable(mo_agents))
        => /\ Len(mo_ordered) = Len(mo_agents)
           /\ \A i \in 1..Len(mo_agents) : PlacedAfterDependencies(mo_agents[i], mo_ordered)

\* C2's case: a finished run on an acyclic, resolvable list of three agents in
\* which an agent is listed before an agent it depends on
C2_Witness ==
    /\ mo_pc = "done"
    /\ Acyclic(mo_agents) /\ Resolvable(mo_agents)
    /\ Len(mo_agents) = 3
    /\ mo_agents[3].id \in mo_agents[1].dependencies
    /\ mo_agents[2].dependencies # {}

\* s is t with some elements left out, the others in t's order
RECURSIVE IsSubsequence(_, _)
IsSubsequence(s, t) ==
    IF s = <<>> THEN TRUE
    ELSE IF t = <<>> THEN FALSE
    ELSE IF Head(s) = Head(t) THEN IsSubsequence(Tail(s), Tail(t))
    ELSE IsSubsequence(s, Tail(t))

NoneReady == mo_remaining # <<>> /\ \A i \in 1..Len(mo_remaining) :
                                        ~IsReady(mo_remaining[i], mo_ordered)

\* C3: calculate_merge_order ends without error on every agent list, also on
\* lists with dependency cycles or dependencies on absent agents: while it
\* runs a step is always possible, every step that does not end the procedure
\* shortens the list of remaining agents, and at the first point where no
\* remaining agent has all its dependencies ordered the step appends the ids
\* of all remaining agents, in their original relative order, and ends it.
C3_FallbackTerminates ==
    /\ [](mo_pc = "loop" => ENABLED NextMergeOrder)
    /\ [](mo_pc = "loop" => IsSubsequence(mo_remaining, mo_agents))
    /\ [][mo_pc = "loop" =>
            /\ mo_pc' = "done" \/ Len(mo_remaining') < Len(mo_remaining)
            /\ NoneReady => /\ mo_pc' = "done"
                            /\ mo_ordered' = mo_ordered \o AgentIds(mo_remaining)
            /\ (mo_pc' = "done" /\ mo_remaining # <<>>) => NoneReady]_vars

\* C3's case: the fallback was taken after one agent had been ordered, with two
\* agents left, one of them naming the absent agent
C3_Witness ==
    /\ mo_pc = "done"
    /\ mo_broke
    /\ Len(mo_remaining) = 2
    /\ Len(mo_ordered) = 3
    /\ \E i \in 1..2 : AbsentId \in mo_remaining[i].dependencies
    /\ mo_remaining[1].id # mo_remaining[2].id

\* a path claimed by two agents of the finished agent list of the run: the
\* list generate_exclusive_agents built, or the list converted from the LLM
FinishedAgentsConflict ==
    \/ SharedPath([i \in 1..Len(d_agents) |-> agent_to_dict(d_agents[i])])
    \/ SharedPath(ReturnedAgents)

\* C9 (as claimed): whenever the finished agent list of a run contains a path
\* claimed by two agents, decompose has raised an error naming the path and
\* both agents, and the run wrote no deployment plan file.
C9_ConflictFatal ==
    (d_pc = "exited" /\ FinishedAgentsConflict)
        => /\ d_error # <<>>
           /\ d_error[1].kind = "CONFLICT"
           /\ d_exit = 1
           /\ deployment_plans = {}

(***************************************************************************)
(* Claims about the integrate stage                                        *)
(***************************************************************************)
Committed(agent) == Contains(commits, agent)

\* the run copied, tested or committed something for the agent
Touched(agent) ==
    \/ \E m \in merged : m.agent = agent
    \/ Contains(tested, agent)
    \/ Committed(agent)

GateFailed == i_pc = "failed" /\ i_failure = "agent_failed"

\* C4 (as claimed): when the test gate fails after the merge of the agent at
\* some position of the merge order, the run ends with exit code 1, every
\* agent before that position has a commit on the integration branch, the
\* failing agent was tested and is not committed, and nothing was copied,
\* tested or committed for any agent after it.
C4_HaltsOnFirstFailure ==
    GateFailed =>
        /\ i_exit = 1
        /\ \A j \in 1..(i_idx - 1) : Committed(integration_order[j])
        /\ Contains(tested, integration_order[i_idx])
        /\ ~Committed(integration_order[i_idx])
        /\ \A j \in (i_idx + 1)..Len(integration_order) : ~Touched(integration_order[j])

\* what the validation directory reports, read independently of the run
StatusReportsPassed ==
    LET file == FileAt(shared_coordination, "validation-status", "json")
    IN  /\ file # <<>>
        /\ file[1].format = "json"
        /\ "validation_passed" \in DOMAIN file[1].data
        /\ file[1].data.validation_passed = TRUE

\* C5: a run creates an integration branch, copies a file or commits only
\* when validation-status.json exists and reports validation_passed = true;
\* in every other case it is still at its first step or has stopped there
\* with exit code 1, having done none of these.
C5_IntegrationPrecondition ==
    /\ (integration_branch # <<>> \/ merged # {} \/ commits # <<>>) => StatusReportsPassed
    /\ ~StatusReportsPassed =>
           /\ i_pc \in {"start", "failed"}
           /\ i_pc = "failed" =>
                  /\ i_exit = 1
                  /\ i_failure \in {"no_validation_status", "validation_not_passed"}
                  /\ integration_branch = <<>> /\ merged = {} /\ commits = <<>>

\* C5's case: a status document that exists and reports validation_passed =
\* false, and the run refused to start
C5_Witness ==
    /\ i_pc = "failed"
    /\ i_failure = "validation_not_passed"
    /\ \E f \in shared_coordination :
          /\ f.name = "validation-status" /\ f.format = "json"
          /\ f.data = [validation_passed |-> FALSE]
    /\ integration_branch = <<>>

\* the plan file the run picked was written by decompose
UsesDecomposePlan == i_plan # <<>> /\ i_plan[1] \in PersistedPlans

\* C6 (as claimed): a run that reads a plan persisted by decompose accepts it
\* and takes that plan's integrationPlan.mergeOrder as its merge order, and
\* once all agents are merged the agents it processed are that sequence.
C6_ConsumesMergeOrder ==
    UsesDecomposePlan =>
        /\ ~(i_pc = "failed" /\ i_failure = "invalid_plan")
        /\ integration_order = i_plan[1].data.integrationPlan.mergeOrder

(***************************************************************************)
(* Claims about the spawn, validate and agent-commit stages                *)
(***************************************************************************)
\* the spawn run was given a plan file as decompose saved it
GivenDecomposePlan == s_in # <<>> /\ s_in[1] \in PersistedPlans

\* C7 (as claimed): a spawn run given the document save_deployment_plan wrote
\* reads it, and the plan it holds after loading has the taskId and the agent
\* records of the plan decompose produced.
C7_PlanRoundTrip ==
    (GivenDecomposePlan /\ s_pc # "load") =>
        /\ s_failure # "plan_unreadable"
        /\ s_plan # <<>>
        /\ s_plan[1].taskId = s_in[1].data.taskId
        /\ s_plan[1].parallelAgents = s_in[1].data.parallelAgents

\* spawn ended normally and created the working copy of every agent of the plan
SpawnedAll == s_pc = "done" /\ s_agents # <<>> /\ s_created = s_agents

\* C8 (as claimed): when spawn has completed for a plan with a non-empty agent
\* set, no working copy having existed before, the validate run that follows
\* does not stop for want of a coordination status or of spawned agents, and
\* the agents it discovers are exactly the agents of the plan.
C8_ManifestsReadable ==
    (SpawnedAll /\ v_pc = "done") =>
        /\ v_failure \notin {"no_coordination_status", "no_agents"}
        /\ Range(AgentIdsOf(spawned_agents)) = Range(s_agents)

\* the checklist of a workspace: <<>> or <<lines>>
ChecklistOf(workspace) ==
    IF workspace = <<>> THEN <<>>
    ELSE LET f == FileAt(workspace[1].files, "validation_checklist", "txt")
         IN  IF f = <<>> THEN <<>> ELSE << f[1].data >>

\* the checklist has an item whose box is not ticked
HasUncheckedItem(workspace) ==
    /\ ChecklistOf(workspace) # <<>>
    /\ \E i \in 1..Len(ChecklistOf(workspace)[1]) : ChecklistOf(workspace)[1][i].box = "open"

\* the checklist has a line holding "[ ]" and no "[x]"
HasOpenLine(workspace) ==
    /\ ChecklistOf(workspace) # <<>>
    /\ \E i \in 1..Len(ChecklistOf(workspace)[1]) :
          LET line == ChecklistOf(workspace)[1][i]
          IN  (line.box = "open" \/ line.text = "keeps [ ] boxes")
              /\ ~(line.box = "checked" \/ line.text = "handles [x] marks")

HasMarker(workspace) ==
    workspace # <<>> /\ \E f \in workspace[1].files : f.name = "COMPLETED"

DiscoveredWorkspace(i) ==
    WorkspaceOf(worktrees, spawned_agents[i].worktree, spawned_agents[i].agent)

CommitWorkspace == WorkspaceOf(worktrees, c_workspace[1].worktree, c_workspace[1].dir)

\* the run wrote a status that reports validation_passed = true
RecordsPassed ==
    \E f \in coordination : /\ f.name = "validation-status"
                            /\ "validation_passed" \in DOMAIN f.data
                            /\ f.data.validation_passed = TRUE
                            /\ f.data.validated_at = "now"

CommitWroteNothing ==
    /\ shared_coordination = {}
    /\ deployment_plans = {}
    /\ reports = {}
    /\ DOMAIN workspaces = {}
    /\ ~c_committed

IntegrationStatusWritten ==
    \E f \in shared_coordination :
        f.name = "integration-status" /\ f.data.integrated_at = "now"

\* the quality gate ran and recorded a failing lint with passing tests and
\* type-check
LintOnlyFailed ==
    /\ quality_results # <<>>
    /\ "linting" \in DOMAIN quality_results[1]
    /\ ~quality_results[1].linting
    /\ quality_results[1].tests
    /\ quality_results[1].typecheck

\* C11: when the quality gate has recorded a failing test suite or a failing
\* type-check, the run has ended with exit code 1 and has written neither a
\* report nor an integration status; when it has recorded a failing lint
\* with passing tests and type-check, the run is not failed: it is about to
\* report or has reported, and the report it writes carries the failing lint.
C11_QualityGate ==
    /\ (quality_results # <<>>
           /\ (~quality_results[1].tests \/ ~quality_results[1].typecheck))
         => /\ i_pc = "failed" /\ i_exit = 1
            /\ i_failure \in {"tests_failed", "typecheck_failed"}
            /\ reports = {}
            /\ ~IntegrationStatusWritten
    /\ LintOnlyFailed
         => /\ i_pc \in {"report", "done"}
            /\ i_pc = "done" =>
                 /\ i_exit = 0
                 /\ IntegrationStatusWritten
                 /\ \E r \in reports : ~r.quality_results.linting

\* C11's case: every agent of a two-agent merge order was committed and the
\* type-check then failed while tests and lint passed
C11_Witness ==
    /\ i_pc = "failed" /\ i_failure = "typecheck_failed"
    /\ Len(integration_order) = 2
    /\ commits = integration_order
    /\ quality_results[1].tests /\ quality_results[1].linting

\* the merge order up to the current position of the loop
Reached ==
    SubSeq(integration_order, 1,
           IF i_idx > Len(integration_order) THEN Len(integration_order) ELSE i_idx)

\* the agents processed so far are a prefix of the merge order: everything
\* tested or committed belongs to the agents up to the current position, in
\* the order of the plan
ProcessedInOrder ==
    /\ IsSubsequence(tested, Reached)
    /\ IsSubsequence(commits, Reached)
    /\ \A m \in merged : \E j \in 1..i_idx : j <= Len(integration_order)
                                               /\ integration_order[j] = m.agent

GatePassed ==
    /\ quality_results # <<>>
    /\ quality_results[1].tests
    /\ quality_results[1].typecheck

C12_Order ==
    /\ ProcessedInOrder
    /\ quality_results # <<>> => i_idx = Len(integration_order) + 1
    /\ (reports # {} \/ IntegrationStatusWritten) =>
          /\ i_pc = "done"
          /\ i_idx = Len(integration_order) + 1
          /\ GatePassed
          /\ \E r \in reports : r.agents_integrated = integration_order

SkippedMissingWorkspace ==
    \E j \in 1..Len(integration_order) :
        j < i_idx /\ workspace_dir(integration_order[j]) = <<>>

\* C13 (as claimed): a decompose run that finds no cached issue, and an
\* integrate run that finds no deployment plan or no workspace directory for
\* an agent of the merge order, ends with a failure and a non-zero exit code;
\* it does not go on with a substitute issue or past the agent.
C13_InputMissingFatal ==
    /\ (d_pc \notin {"idle", "load"} /\ ~d_in.cached)
         => (d_pc \in {"raised", "exited"} /\ d_result = <<>> /\ d_exit # 0)
    /\ (i_pc \notin {"idle", "start", "plan"} /\ find_deployment_plan(deployment_plans) = {})
         => (i_pc = "failed" /\ i_exit = 1)
    /\ ~SkippedMissingWorkspace

(***************************************************************************)
(* Claims about the hybrid path and the persistence of the plan            *)
(***************************************************************************)
\* the hybrid analyzer is enabled and answered with a confidence of 0.8 or
\* more (confidences in tenths)
HybridAccepted ==
    /\ d_in.use_hybrid
    /\ d_in.llm_outcome = "result"
    /\ d_in.llm_result.confidence >= 8

\* none of analyze, graph, domains, agents, validate, plan has left a trace
NoPatternStepRan ==
    /\ all_file_operations = <<>>
    /\ dependency_graph = <<>>
    /\ exclusive_domains = <<>>
    /\ d_agents = <<>>
    /\ d_plan = <<>>
    /\ d_error = <<>>

\* the run is in the pattern-based pipeline or has come out of it
PatternPipelineRuns ==
    \/ d_pc \in {"analyze", "graph", "domains", "agents", "validate", "plan", "save",
                 "report"}
    \/ d_pc \in {"returned", "raised", "exited"} /\ (d_plan # <<>> \/ d_error # <<>>)

\* C14: past the hybrid step, a run whose analyzer is enabled and answered
\* with confidence >= 0.8 has returned the plan converted from the answer
\* and has run no pattern-based step; a run whose analyzer is disabled,
\* unavailable, raised or answered with less is in the pattern-based
\* pipeline or has come out of it.
C14_HybridThreshold ==
    d_pc \notin {"idle", "load", "hybrid"} =>
        /\ HybridAccepted =>
              /\ d_pc \in {"returned", "exited"}
              /\ d_result # <<>>
              /\ d_result[1].decompositionStrategy = "llm_hybrid"
              /\ [i \in 1..Len(d_result[1].parallelAgents) |->
                      d_result[1].parallelAgents[i].agentId]
                   = [i \in 1..Len(d_in.llm_result.agents) |->
                          d_in.llm_result.agents[i].agentId]
              /\ NoPatternStepRan
        /\ ~HybridAccepted => PatternPipelineRuns

\* C14's case: the analyzer answered with exactly 0.8 and two agents, and
\* the run ended with the converted plan
C14_Witness ==
    /\ d_pc = "exited" /\ d_exit = 0
    /\ d_in.llm_result.confidence = 8
    /\ Len(d_in.llm_result.agents) = 2
    /\ d_result[1].decompositionStrategy = "llm_hybrid"

\* the run ended with exit code 0, decompose having returned a plan
DecomposeSucceeded == d_pc = "exited" /\ d_exit = 0 /\ d_result # <<>>

\* shared/deployment-plans holds the returned plan, in one file
PlanPersisted ==
    /\ \E f \in deployment_plans : f.data = d_result[1]
    /\ Cardinality(deployment_plans) = 1

\* C15 (as claimed): a decompose run that ended successfully has left the
\* plan it returned in shared/deployment-plans, whichever path produced it,
\* and the run wrote to that directory once only: every step that changes
\* the directory starts from the directory as the run found it.
C15_PersistsOnce ==
    /\ [](DecomposeSucceeded => PlanPersisted)
    /\ [][deployment_plans' # deployment_plans => deployment_plans = {}]_vars

(***************************************************************************)
(* Claims about the validation status across runs                          *)
(***************************************************************************)
\* the status integrate would read reports validation_passed = true
StoredStatusPassed ==
    LET file == FileAt(coordination, "validation-status", "json")
    IN  file # <<>> /\ validation_passed(load_json_file(file))

\* C16 (as claimed): after a validate run that failed because agents were
\* pending, a workspace was missing or files conflicted, the stored
\* validation status does not report validation_passed = true.
C16_StatusReflectsRun ==
    (v_pc = "done" /\ v_failure \in {"pending", "validation_failed"})
        => (v_exit # 0 /\ ~StoredStatusPassed)

(***************************************************************************)
(* Claims about agent records                                              *)
(***************************************************************************)
\* in every record of the list, canStartImmediately is true exactly when the
\* record has no dependency
CanStartIffNoDependency(records) ==
    \A i \in 1..Len(records) :
        records[i].canStartImmediately <=> (records[i].dependencies = {})

\* the entries of the coordination status spawn wrote
StatusEntries ==
    LET file == FileAt(coordination, "parallel-agent-status", "yaml")
    IN  IF file = <<>> THEN <<>> ELSE file[1].data.agents

\* C17: in the agents decompose synthesized, in the agent records of the plan
\* decompose returned (pattern-based or hybrid), in the agent records of a
\* plan of decompose handed to spawn, and in the entries of the coordination
\* status spawn wrote, canStartImmediately is true if and only if the
\* dependencies are empty.
C17_CanStartInvariant ==
    /\ \A i \in 1..Len(d_agents) :
          d_agents[i].can_start_immediately <=> (d_agents[i].dependencies = {})
    /\ d_result # <<>> => CanStartIffNoDependency(d_result[1].parallelAgents)
    /\ (s_in # <<>> /\ "decompositionStrategy" \in DOMAIN s_in[1].data)
          => CanStartIffNoDependency(s_in[1].data.parallelAgents)
    /\ CanStartIffNoDependency(StatusEntries)

\* C17's case: spawn wrote the status of a plan of decompose with two
\* agents, one free to start and one with a dependency
C17_Witness ==
    /\ s_pc = "done"
    /\ "decompositionStrategy" \in DOMAIN s_in[1].data
    /\ Len(StatusEntries) = 2
    /\ \E i, j \in 1..2 : /\ StatusEntries[i].canStartImmediately
                          /\ StatusEntries[j].dependencies # {}
                          /\ ~StatusEntries[j].canStartImmediately

\* the agent's two file lists split the files of the domain: no path twice,
\* every path of the domain in one of them, and in files_to_create exactly
\* the paths whose first recorded operation is a CREATE
SplitsDomain(agent, files) ==
    /\ Range(agent.files_to_create) \cap Range(agent.files_to_modify) = {}
    /\ Range(agent.files_to_create) \cup Range(agent.files_to_modify) = Range(files)
    /\ Len(agent.files_to_create) + Len(agent.files_to_modify) = Cardinality(Range(files))
    /\ \A f \in Range(files) :
          f \in Range(agent.files_to_create)
             <=> Lookup(all_file_operations, f)[1].operation = "CREATE"

\* C18: once the agents are synthesized there is one agent per domain, in
\* the order of the domains, and each agent's filesToCreate and
\* filesToModify are disjoint, together are exactly the paths of its domain,
\* and filesToCreate holds the paths whose first operation is a CREATE; the
\* record of the agent in the plan carries the same two lists.
C18_FileSetsOfDomain ==
    d_pc \in {"validate", "plan", "save", "report", "returned", "raised", "exited"}
      /\ (d_plan # <<>> \/ d_agents # <<>>)
    =>
      /\ Len(d_agents) = Len(exclusive_domains)
      /\ \A i \in 1..Len(d_agents) : SplitsDomain(d_agents[i], exclusive_domains[i].v)
      /\ d_plan # <<>> =>
            \A i \in 1..Len(d_agents) :
               /\ d_plan[1].parallelAgents[i].filesToCreate = d_agents[i].files_to_create
               /\ d_plan[1].parallelAgents[i].filesToModify = d_agents[i].files_to_modify

\* C18's case: a run ended with two agents, each synthesized from a domain
\* of four paths
C18_Witness ==
    /\ d_pc = "exited" /\ d_exit = 0
    /\ Len(d_agents) = 2
    /\ \A i \in 1..2 : Len(exclusive_domains[i].v) = 4
                       /\ Len(d_agents[i].files_to_create) = 4

(***************************************************************************)
(* The scenario "1. Implement JWT auth login\n2. Add API endpoint for      *)
(* validation"                                                             *)
(***************************************************************************)
\* the two numbered lines with the rule keywords their lower-cased text
\* contains: auth and login in the first; api, endpoint and validation in
\* the second
ScenarioDescription ==
    << [numbered |-> TRUE, words |-> {"auth", "login"}],
       [numbered |-> TRUE, words |-> {"api", "endpoint", "validation"}] >>

\* a run of the pattern-based pipeline on the scenario's text has ended
ScenarioRunEnded ==
    /\ d_pc = "exited"
    /\ d_in.cached
    /\ d_in.description = ScenarioDescription
    /\ d_in.llm_outcome # "result" \/ d_in.llm_result.confidence < 8 \/ ~d_in.use_hybrid

\* the agent of the plan's agents that has the id
AgentOf(id) == d_agents[CHOOSE i \in 1..Len(d_agents) : d_agents[i].id = id]

\* the validator passed, backend depends on the absent data agent, and the
\* merge order ends with backend although backend is not ready even after
\* every other agent: only the fallback append puts it there
BackendThroughFallback ==
    /\ d_error = <<>> /\ d_exit = 0
    /\ \E i \in 1..Len(d_agents) : d_agents[i].id = "backend_agent"
    /\ AgentOf("backend_agent").dependencies = {"data_agent"}
    /\ ~Contains(AgentIds(d_agents), "data_agent")
    /\ LET order == d_result[1].integrationPlan.mergeOrder
       IN  /\ order[Len(order)] = "backend_agent"
           /\ ~IsReady(AgentOf("backend_agent"), order)

\* C19 (as claimed): the run on the scenario's text ends with exactly the two
\* domains auth and backend, of four files each, backend depending on the
\* absent data agent; the validator passes; the merge order is auth, then
\* backend by the fallback append.
C19_ScenarioTwoDomains ==
    ScenarioRunEnded =>
        /\ Keys(exclusive_domains) = << "auth", "backend" >>
        /\ \A i \in 1..Len(exclusive_domains) : Len(exclusive_domains[i].v) = 4
        /\ BackendThroughFallback
        /\ d_result[1].integrationPlan.mergeOrder = << "auth_agent", "backend_agent" >>

\* C19 (amended): the run on the scenario's text ends with exactly the three
\* domains auth, forms and backend, of four files each (the second line
\* names "validation", a keyword of the forms rule), forms depending on
\* auth and backend on the absent data agent; the validator passes; the
\* merge order is auth, forms, then backend by the fallback append.
C19_ScenarioThreeDomains ==
    ScenarioRunEnded =>
        /\ Keys(exclusive_domains) = << "auth", "forms", "backend" >>
        /\ \A i \in 1..Len(exclusive_domains) : Len(exclusive_domains[i].v) = 4
        /\ AgentOf("forms_agent").dependencies = {"auth_agent"}
        /\ BackendThroughFallback
        /\ d_result[1].integrationPlan.mergeOrder
             = << "auth_agent", "forms_agent", "backend_agent" >>

\* C19's case: the run on the scenario's text has ended with exit code 0 and
\* a plan of three agents
C19_Witness ==
    /\ ScenarioRunEnded
    /\ d_exit = 0
    /\ Len(d_result[1].parallelAgents) = 3
    /\ Len(d_result[1].integrationPlan.mergeOrder) = 3

(***************************************************************************)
(* Claims about the checklist                                              *)
(***************************************************************************)
\* the checklist read back line by line, as generate_commit_message reads
\* it: the criterion is the text after the number, the state is the box
parse_checklist(lines) ==
    [i \in 1..Len(lines) |->
        [criterion |-> lines[i].text, checked |-> HasCheckedBox(lines[i])]]

\* the checklist this spawn run wrote for the agent, read back
WrittenChecklist(agent_id) ==
    LET workspace == WorkspaceOf(worktrees, branch_name(s_plan[1].taskId, agent_id), agent_id)
    IN  parse_checklist(ChecklistOf(workspace)[1])

\* C20 (as claimed): when spawn has created the working copy of an agent
\* whose record lists the criteria a, b, c, the checklist it wrote, read
\* back, is the criteria a, b, c in that order, each unchecked.
C20_ChecklistRoundTrip ==
    (s_in = << OrderedCriteriaPlan >> /\ Contains(s_created, "a")) =>
        WrittenChecklist("a") = << [criterion |-> "a", checked |-> FALSE],
                                   [criterion |-> "b", checked |-> FALSE],
                                   [criterion |-> "c", checked |-> FALSE] >>

(***************************************************************************)
(* Determinism of the pattern-based path                                   *)
(***************************************************************************)
\* the requirements of the run, which its input fixes
RunRequirements ==
    IF d_in.cached THEN extract_requirements(d_in.description)
    ELSE << FallbackRequirement >>

\* the run is on the pattern-based path and past create_exclusive_domains
PastDomains ==
    \/ d_pc \in {"agents", "validate", "plan", "save", "report"}
    \/ d_pc \in {"returned", "raised", "exited"} /\ (d_plan # <<>> \/ d_error # <<>>)

C22_DryRunWritesNothing ==
    d_in.dry_run => deployment_plans = {}

(***************************************************************************)
(* Claims about the dependency graph                                       *)
(***************************************************************************)
\* the adjacency list of every analysed file under the directory holds every
\* other analysed file under one of the dependent directories
ListsDependents(dir, dependents) ==
    \A i \in 1..Len(dependency_graph) :
        UnderDir(dependency_graph[i].k, dir) =>
            \A j \in 1..Len(dependency_graph) :
                (j # i /\ \E d \in dependents : UnderDir(dependency_graph[j].k, d))
                    => Contains(dependency_graph[i].v, dependency_graph[j].k)

\* C23 (as claimed): in the dependency graph, a file under lib/database/
\* lists every other analysed file under pages/api/ and under lib/api/, and
\* a file under types/ lists every other analysed file under lib/,
\* components/ and pages/.
C23_DatabaseRule ==
    /\ ListsDependents(<<"lib", "database">>, { <<"pages", "api">>, <<"lib", "api">> })
    /\ ListsDependents(<<"types">>, { <<"lib">>, <<"components">>, <<"pages">> })

\* both invocations have written everything they write
RaceEnded == \A w \in Writers(r_path) : r_pc[w] = "done"

\* the last document a writer dumps: its result
FinalDocument(w) == Document(w, Len(r_todo[w]), r_todo[w][Len(r_todo[w])])

\* every block of a document is on disk
Intact(doc) == \A i \in 1..Len(doc) : \E j \in 1..Len(r_file) : r_file[j] = doc[i]

\* the file starts with a document
StartsWith(doc) == Len(r_file) >= Len(doc) /\ SubSeq(r_file, 1, Len(doc)) = doc

\* C24: once two invocations that write the same status file (two validate
\* runs, or agent-commit and integrate) have both finished, the file starts
\* with the result of one of them and does not hold the result of the other:
\* it reflects one invocation only, or that one followed by left-over blocks of
\* the other
C24_LostUpdate ==
    RaceEnded =>
        \E w \in Writers(r_path) :
            /\ StartsWith(FinalDocument(w))
            /\ \A o \in Writers(r_path) \ {w} : ~Intact(FinalDocument(o))

\* both invocations are done and the file mixes blocks of the two
C24_Witness ==
    /\ RaceEnded
    /\ \A w \in Writers(r_path) : \E j \in 1..Len(r_file) : r_file[j].by = w

\* both are done and the file is exactly the result of one invocation
C24_WitnessLost ==
    /\ RaceEnded
    /\ \E w \in Writers(r_path) : r_file = FinalDocument(w)

\* no two agents of the list have the same id
DistinctIds(agents) ==
    \A i, j \in 1..Len(agents) : agents[i].id = agents[j].id => i = j

\* how often an id occurs in a sequence of ids
Occurrences(ids, id) == Cardinality({ i \in 1..Len(ids) : ids[i] = id })

\* C26: for an agent list with pairwise distinct ids the sequence returned by
\* calculate_merge_order holds every agent id exactly once and nothing else,
\* whether the loop ran to the end or left through the fallback
C26_MergeOrderPermutation ==
    (mo_pc = "done" /\ DistinctIds(mo_agents))
        => /\ Len(mo_ordered) = Len(mo_agents)
           /\ \A i \in 1..Len(mo_agents) : Occurrences(mo_ordered, mo_agents[i].id) = 1
           /\ mo_ordered = calculate_merge_order(mo_agents)

\* C26's case: a finished run over three agents with distinct ids that left
\* through the fallback after ordering one of them
C26_Witness ==
    /\ mo_pc = "done"
    /\ DistinctIds(mo_agents)
    /\ Len(mo_agents) = 3
    /\ mo_broke
    /\ Len(mo_remaining) = 2

\* a finished run over three agents with distinct ids that never took the
\* fallback
C26_WitnessNoFallback ==
    /\ mo_pc = "done"
    /\ DistinctIds(mo_agents)
    /\ Len(mo_agents) = 3
    /\ ~mo_broke

\* the manifest files of one work-tree: file-ownership list, checklist and
\* test-contract list of each workspace in it
ManifestsOf(t) ==
    UNION { { [dir |-> w.dir, file |-> f] :
                f \in { x \in w.files :
                          x.name \in {"files_to_work_on", "validation_checklist",
                                      "test_contracts"} } } : w \in t.workspaces }

\* C25: no step of a spawn run or of a validate run changes a work-tree that
\* exists: a work-tree that is there before the step is there after it with
\* the same workspaces and the same manifest files, ticked checklist items
\* included; spawn only adds work-trees that did not exist
C25_ManifestsNotMutated ==
    [][\A t \in worktrees :
          \E u \in worktrees' :
              /\ u.name = t.name
              /\ ManifestsOf(u) = ManifestsOf(t)]_vars

\* no step of an integrate run changes a workspace
C25_IntegrateOnlyReads == [][workspaces' = workspaces]_vars

\* C25's case: a spawn run for a plan naming agent a has finished, validate
\* has run too, and the work-tree of agent a that existed before holds its
\* ticked checklist
C25_Witness ==
    /\ s_pc = "done"
    /\ v_pc = "done"
    /\ Contains(s_agents, "a")
    /\ WorkedWorktree \in worktrees
    /\ \E m \in ManifestsOf(WorkedWorktree) :
          /\ m.file.name = "validation_checklist"
          /\ m.file.data[1].box = "checked"

(***************************************************************************)
(* Ownership conflicts on the pattern-based path                           *)
(***************************************************************************)
\* operation tables as analyze_file_operations may leave them in principle:
\* distinct paths, each with one or two operations tagged with any domains
TaggedOperations ==
    LET op(domain) == [operation |-> "CREATE", domain |-> domain, requirement |-> {}]
        lists == { << op(x) >> : x \in {"auth", "backend"} }
                 \cup { << op(x), op(y) >> : x, y \in {"auth", "backend"} }
        files == {"types/auth.ts", "types/api.ts", "lib/api/client.ts"}
    IN  { [i \in 1..Len(order) |-> [k |-> order[i], v |-> tags[i]]] :
            order \in UNION { Orderings(S) : S \in SUBSET files },
            tags \in [1..Cardinality(files) -> lists] }

\* neither check raises for the operation table
NoConflictReported(all) ==
    /\ ~DomainFileConflict(domain_groups(all))
    /\ validate_no_conflicts(generate_exclusive_agents(domain_groups(all), all)).kind = "ok"

\* no two rules of the table name the same path, and no rule names one twice
RulePathsDisjoint ==
    LET files == Flatten([j \in 1..Len(patterns) |-> patterns[j].files])
    IN  \A i, j \in 1..Len(files) : files[i] = files[j] => i = j

\* neither check reports a conflict, whatever the operation table
NoConflictForAnyTable == \A all \in TaggedOperations : NoConflictReported(all)

\* C27: a run of the pattern-based path never ends in an ownership conflict,
\* from the duplicate-path check of create_exclusive_domains or from
\* validate_no_conflicts; the paths of the rule table are pairwise disjoint;
\* and neither check reports a conflict for any operation table, also one in
\* which a path carries operations tagged with different domains
C27_NoConflictOnPatternPath ==
    /\ d_error # <<>> => d_error[1].kind \notin {"DOMAIN_CONFLICT", "CONFLICT"}
    /\ d_pc \in {"agents", "validate", "plan", "save", "report"}
          => NoConflictReported(all_file_operations)
    /\ RulePathsDisjoint
    /\ NoConflictForAnyTable

\* C27's case: the pattern-based path has passed both checks with two domains
\* and a path that two requirements produced
C27_Witness ==
    /\ d_pc = "plan"
    /\ d_error = <<>>
    /\ Len(exclusive_domains) >= 2
    /\ \E i \in 1..Len(all_file_operations) : Len(all_file_operations[i].v) = 2

(***************************************************************************)
(* Claims about the integration status over several runs                   *)
(***************************************************************************)
\* the stored integration-status.yaml reports integration_complete = true
StoredStatusComplete ==
    \E f \in shared_coordination :
        f.name = "integration-status" /\ f.data.integration_complete

\* C28 (as claimed): when an integrate run has ended, the stored integration
\* status reports integration_complete = true only if that run reached its
\* report; a run that failed leaves no 'complete' status of an earlier run.
C28_StatusOfLatestRun ==
    (i_pc \in {"done", "failed"} /\ StoredStatusComplete) => i_pc = "done"

(***************************************************************************)
(* Claims about what integrate_agent's success means                       *)
(***************************************************************************)
\* the paths the agent's files_to_work_on.txt lists
ClaimedFiles(agent) ==
    LET workspace == workspace_dir(agent)
    IN  IF workspace = <<>> \/ workspace[1].files_to_work_on = <<>> THEN {}
        ELSE { clean_path(l) : l \in workspace[1].files_to_work_on[1] }

\* integrate_agent returned True for the agent at position j of the order
ReportedSuccess(j) ==
    /\ i_pc \in {"agents", "report", "done", "failed"}
    /\ j \in 1..Len(integration_order)
    /\ j < i_idx

\* C29 (as claimed): every agent for which integrate_agent returned True was
\* tested and has a commit on the integration branch, with its claimed files
\* copied; and every agent a report lists as integrated has a commit.
C29_SuccessMeansCommitted ==
    /\ \A j \in 1..Len(integration_order) :
          ReportedSuccess(j) =>
              /\ Contains(tested, integration_order[j])
              /\ Committed(integration_order[j])
              /\ \A f \in ClaimedFiles(integration_order[j]) :
                    [agent |-> integration_order[j], file |-> f] \in merged
    /\ \A r \in reports :
          \A j \in 1..Len(r.agents_integrated) : Committed(r.agents_integrated[j])

\* the test-and-commit half alone, for agents whose workspace exists and with
\* a package manager present
C29_CommittedWhenTested ==
    \A j \in 1..Len(integration_order) :
        (ReportedSuccess(j) /\ workspace_dir(integration_order[j]) # <<>>
            /\ i_in.pm # "none")
            => /\ Contains(tested, integration_order[j])
               /\ Committed(integration_order[j])

(***************************************************************************)
(* Claims about the three completion predicates                            *)
(***************************************************************************)
\* the workspaces on disk that hold no COMPLETED marker
UnmarkedWorkspaces ==
    { w \in UNION { t.workspaces : t \in worktrees } :
        FileAt(w.files, "COMPLETED", "") = <<>> }

CompleteForValidate(w) == check_agent_completion(<< w >>)
CompleteForMonitor(w) == get_agent_progress(w.files).status = "complete"
CompleteForCommit(w) == validate_agent_completion(w.files).kind = "ok"

\* C30 (as claimed): for every workspace without a COMPLETED marker, validate,
\* the monitor and agent-commit classify the agent as complete in the same
\* cases, whatever the checklist holds.
C30_CompletionPredicatesAgree ==
    \A w \in UnmarkedWorkspaces :
        /\ CompleteForValidate(w) = CompleteForMonitor(w)
        /\ CompleteForMonitor(w) = CompleteForCommit(w)

\* the monitor and agent-commit agree with each other
C30_MonitorAgreesWithCommit ==
    \A w \in UnmarkedWorkspaces : CompleteForMonitor(w) = CompleteForCommit(w)

\* validate never counts an agent complete that has an unticked line, and
\* whatever the other two call complete has no line left for validate to
\* object to except one whose criterion text holds "[ ]"
C30_ValidateDiffers ==
    \A w \in UnmarkedWorkspaces :
        CompleteForValidate(w) # CompleteForCommit(w) =>
            LET lines == FileAt(w.files, "validation_checklist", "txt")[1].data
            IN  \/ \A i \in 1..Len(lines) : ~HasOpenBox(lines[i]) /\ ~HasCheckedBox(lines[i])
                \/ \E i \in 1..Len(lines) : HasOpenBox(lines[i]) /\ HasCheckedBox(lines[i])

=============================================================================
